---- MODULE Spec2Model ----
(***************************************************************************)
(* Model of the seller-operations dashboards: the report job drivers       *)
(* (streamlit_app.py, Listing_report.py, sales_order4.py), the LWA token   *)
(* cache (Extract_sku_details3.py) and the financial-event flattener and   *)
(* currency normalizer (Dashboard.py).                                     *)
(*                                                                         *)
(* Each component has its own specification (SpecDriver, SpecToken,        *)
(* SpecFin, SpecConvert); the variables of the other components keep their *)
(* initial values.  Python's None is the string "None", a key that is      *)
(* missing from a response payload is the string "absent".                 *)
(***************************************************************************)
EXTENDS Integers, Sequences, FiniteSets, TLC

VARIABLES
    \* ---- report job driver -------------------------------------------
    driver,               \* which file's driver runs
    pc,                   \* position of the driver
    report_id,            \* reportId read from the create_report response
    attempt,              \* iterations of the polling loop started so far
    get_report_response,  \* payload of the last get_report response
    processing_status,    \* local variable processing_status / status
    report_document_id,   \* local variable report_document_id / doc_id
    create_report_calls,  \* number of create_report requests issued
    get_report_calls,     \* number of get_report (status) requests issued
    document_requests,    \* arguments of the get_report_document requests
    report_text,          \* decoded report text (sales_order4: the driver's return value)
    result,               \* return value of the top-level function
    reported,             \* kind of the message shown to the user
    reported_status,      \* status named in a "failed with status" message
    \* ---- token cache (Extract_sku_details3.py) ------------------------
    access_token_info,    \* the global cache: (region, account) -> entry
    now,                  \* datetime.now(), in seconds
    credentials,          \* keys whose LWA credentials are set in the environment
    last_call,            \* what the latest get_access_token call did
    \* ---- financial events (Dashboard.py) ------------------------------
    financial_events_payload,  \* argument of process_financial_events
    fin_pc,                    \* "input" before, "processed" after the call
    page_df,                   \* table returned by process_financial_events
    \* ---- currency normalizer (Dashboard.py) ---------------------------
    financial_df,         \* the table handed to / returned by convert_df_to_inr
    rates,                \* rate table of the latest conversion
    source_df,            \* the table as it was before the latest conversion
    conversions,          \* number of convert_df_to_inr calls so far
    \* ---- document decoder (the three report drivers) ------------------
    decode_driver,          \* which file's decoder runs
    compression_algorithm,  \* payload.get('compressionAlgorithm')
    report_content_bytes,   \* requests.get(url).content
    decode_pc,              \* "downloaded" before, "decoded" after
    decoded,                \* what the decoder produced
    \* ---- exchange rate tables (Dashboard.py, sales_order4.py) ----------
    fx_app,               \* which file's rate fetcher runs
    fx_currencies,        \* the currencies whose rates are needed, in order
    fx_pc,                \* "fetch" while fetching, "done" after the return
    fx_i,                 \* currencies handled so far by the loop
    fx_rates,             \* the rate table built / returned
    fx_requests,          \* requests sent to the rate service
    fx_fetched,           \* currency -> rate the service delivered
    fx_failed,            \* currencies whose rate the service did not deliver
    \* ---- financial data fetch (Dashboard.py) --------------------------
    env_credentials,      \* regions whose credentials are all in the environment
    n_chunks,             \* number of 30-day chunks of the selected date range
    fetch_pc,             \* "chunk", "page", "returned" or "done"
    region_i,             \* index of the region being processed
    chunk_i,              \* index of the chunk being processed
    pages,                \* page requests of the current chunk so far
    next_token,           \* NextToken of the previous page
    request_token,        \* NextToken argument of the latest list_financial_events request
    all_events_df,        \* rows collected by the current chunk
    all_data_df,          \* rows collected by fetch_financial_data_in_chunks
    attempted_chunks,     \* (region, chunk) of the fetch_financial_data_chunk calls
    last_return,          \* what the latest fetch_financial_data_chunk call returned
    succeeded_chunks,     \* (region, chunk) of the calls that returned a table
    failed_chunks,        \* (region, chunk) of the calls that reported an error
    requested_regions,    \* regions a list_financial_events request was sent for
    session_financial_df, \* st.session_state.financial_df
    ui_state,             \* what main_dashboard presents after the fetch
    \* ---- order details (sales_order4.py) ------------------------------
    regional_tokens,      \* regions whose refresh token is in the environment
    order_region,         \* region of the marketplace of the order
    order_pc,             \* position of get_order_details
    refresh_token,        \* creds['refresh_token']
    order_items,          \* number of items of the order, once fetched
    priced_items,         \* items whose pricing was requested so far
    pricing_offers,       \* 'Offers' of the latest pricing response
    listing_prices,       \* 'Listing Price' stored for each priced item
    order_api_calls,      \* marketplace API operations invoked, in order
    order_reported,       \* kinds of the messages shown
    order_result,         \* return value of get_order_details
    \* ---- date chunks (Dashboard.py) -----------------------------------
    start_date,           \* first day of the selected range, as a day number
    end_date,             \* last day of the selected range
    date_region_i,        \* index of the region being processed
    current_start_date,   \* local variable current_start_date
    date_pc,              \* "chunk", "pause" or "returned"
    windows,              \* the fetch_financial_data_chunk calls made, in order
    slept,                \* time.sleep(5) ran since the latest chunk call
    kept_chunks,          \* chunk tables concatenated into all_data_df
    \* ---- st.cache_data around get_amazon_report -----------------------
    report_cache,         \* arguments -> cached return value, or "missing"
    cache_calls,          \* get_amazon_report calls made so far
    cache_args,           \* arguments of the latest call
    cache_result,         \* return value of the latest call
    cache_hit,            \* the latest call was answered from the cache
    service_requests      \* create_report requests sent so far

driverVars == <<driver, pc, report_id, attempt, get_report_response,
                processing_status, report_document_id, create_report_calls,
                get_report_calls, document_requests, report_text, result,
                reported, reported_status>>

tokenVars == <<access_token_info, now, credentials, last_call>>

finVars == <<financial_events_payload, fin_pc, page_df>>

convertVars == <<financial_df, rates, source_df, conversions>>

decodeVars == <<decode_driver, compression_algorithm, report_content_bytes,
                decode_pc, decoded>>

fxVars == <<fx_app, fx_currencies, fx_pc, fx_i, fx_rates, fx_requests,
            fx_fetched, fx_failed>>

fetchVars == <<env_credentials, n_chunks, fetch_pc, region_i, chunk_i, pages,
               next_token, request_token, all_events_df, all_data_df,
               attempted_chunks, last_return,
               succeeded_chunks, failed_chunks, requested_regions,
               session_financial_df, ui_state>>

orderVars == <<regional_tokens, order_region, order_pc, refresh_token, order_items,
               priced_items, pricing_offers, listing_prices, order_api_calls,
               order_reported, order_result>>

dateVars == <<start_date, end_date, date_region_i, current_start_date, date_pc,
              windows, slept, kept_chunks>>

cacheVars == <<report_cache, cache_calls, cache_args, cache_result, cache_hit,
               service_requests>>

vars == <<driverVars, tokenVars, finVars, convertVars, decodeVars, fxVars, fetchVars, orderVars, dateVars, cacheVars>>

(***************************************************************************)
(* Report job driver                                                       *)
(***************************************************************************)
Drivers == {"streamlit_app", "Listing_report", "sales_order4"}

MAX_POLL_ATTEMPTS == 120
LISTING_MAX_POLL_ATTEMPTS == 120
SALES_POLL_ATTEMPTS == 20

\* the attempt ceiling of each driver's polling loop
PollCeiling(d) ==
    IF d = "streamlit_app" THEN MAX_POLL_ATTEMPTS
    ELSE IF d = "Listing_report" THEN LISTING_MAX_POLL_ATTEMPTS
    ELSE SALES_POLL_ATTEMPTS

\* values of payload['reportId'] in a create_report response
ReportIdFields == {"absent", "None", "r1"}
\* values of payload['processingStatus'] in a get_report response
StatusFields == {"absent", "IN_QUEUE", "IN_PROGRESS", "DONE", "FATAL",
                 "CANCELLED", "UNRECOGNIZED"}
\* values of payload['reportDocumentId'] in a get_report response
DocumentIdFields == {"absent", "None", "doc1", "doc2"}

TerminalStatuses == {"DONE", "FATAL", "CANCELLED"}

\* get_report responses: only a DONE report carries a document id
GetReportResponses ==
    [processingStatus : StatusFields \ {"DONE"}, reportDocumentId : {"absent"}]
    \cup [processingStatus : {"DONE"}, reportDocumentId : DocumentIdFields]

\* a missing status read as a terminal one
Get_missing_is_fatal(field) == IF field = "absent" THEN "FATAL" ELSE field

\* dict.get(key): a missing key reads as None
Get(field) == IF field = "absent" THEN "None" ELSE field

\* Python truthiness of an id read from a payload
Truthy(v) == v \notin {"None", "absent", "unset"}

\* what one step of a driver decides
Step(p, doc, txt, res, rep, rst) ==
    [pc |-> p, report_document_id |-> doc, report_text |-> txt,
     result |-> res, reported |-> rep, reported_status |-> rst]

\* an exception raised inside the try block of get_amazon_report (streamlit_app.py)
streamlit_except(kind) == Step("done", report_document_id, report_text, "None", kind, "none")

\* an exception raised inside the try block of get_amazon_report (Listing_report.py)
listing_except(kind) ==
    Step("done", report_document_id, report_text, "None",
         IF kind = "sp_api" THEN "sp_api" ELSE "unexpected", "none")

\* an exception raised in the per-marketplace try block of get_sales_summary_data:
\* it is reported, the marketplace is skipped and no rows are collected
sales_except(kind) ==
    Step("done", report_document_id, report_text, "empty_table",
         IF kind = "sp_api" THEN "sp_api" ELSE "unexpected", "none")

\* streamlit_app.py: create_report and the reportId check
streamlit_create_report(idField) ==
    IF Truthy(Get(idField))
    THEN Step("poll", "None", "unset", "running", "none", "none")
    ELSE Step("done", "unset", "unset", "None", "submission", "none")

\* Listing_report.py: create_report and the reportId check
listing_create_report(idField) ==
    IF Truthy(Get(idField))
    THEN Step("poll", "unset", "unset", "running", "none", "none")
    ELSE Step("done", "unset", "unset", "None", "submission", "none")

\* sales_order4.py: payload['reportId'] is read without a check; a missing key
\* raises KeyError, any other value is handed to download_and_process_report
sales_create_report(idField) ==
    IF idField = "absent"
    THEN sales_except("unexpected")
    ELSE Step("poll", "unset", "unset", "running", "none", "none")

\* streamlit_app.py's loop without the break on DONE
streamlit_poll_no_break(rsp, n) ==
    LET st == Get(rsp.processingStatus)
        doc == Get(rsp.reportDocumentId)
    IN  IF st \in {"FATAL", "CANCELLED"}
        THEN Step("done", "None", "unset", "None", "status", st)
        ELSE IF n >= MAX_POLL_ATTEMPTS
        THEN IF st = "DONE" /\ Truthy(doc)
             THEN Step("get_report_document", doc, "unset", "running", "none", "none")
             ELSE Step("done", "None", "unset", "None", "timeout", "none")
        ELSE Step("poll", "None", "unset", "running", "none", "none")

\* streamlit_app.py: one iteration of the polling loop, n = attempt + 1,
\* followed, when the loop ends, by the report_document_id check
streamlit_poll(rsp, n) ==
    LET st == Get(rsp.processingStatus)
        doc == Get(rsp.reportDocumentId)
    IN  IF st = "DONE"
        THEN IF Truthy(doc)
             THEN Step("get_report_document", doc, "unset", "running", "none", "none")
             ELSE Step("done", doc, "unset", "None", "timeout", "none")
        ELSE IF st \in {"FATAL", "CANCELLED"}
        THEN Step("done", "None", "unset", "None", "status", st)
        ELSE IF n >= MAX_POLL_ATTEMPTS
        THEN Step("done", "None", "unset", "None", "timeout", "none")
        ELSE Step("poll", "None", "unset", "running", "none", "none")

\* Listing_report.py's loop running one iteration too many
listing_poll_one_more(rsp, n) ==
    LET st == Get(rsp.processingStatus)
        doc == Get(rsp.reportDocumentId)
    IN  IF st = "DONE"
        THEN Step("get_report_document", doc, "unset", "running", "none", "none")
        ELSE IF st \in {"FATAL", "CANCELLED"}
        THEN Step("done", "unset", "unset", "None", "status", st)
        ELSE IF n > LISTING_MAX_POLL_ATTEMPTS
        THEN Step("done", "unset", "unset", "None", "timeout", "none")
        ELSE Step("poll", "unset", "unset", "running", "none", "none")

\* Listing_report.py: one iteration of the polling loop, with the for-else
listing_poll(rsp, n) ==
    LET st == Get(rsp.processingStatus)
        doc == Get(rsp.reportDocumentId)
    IN  IF st = "DONE"
        THEN Step("get_report_document", doc, "unset", "running", "none", "none")
        ELSE IF st \in {"FATAL", "CANCELLED"}
        THEN Step("done", "unset", "unset", "None", "status", st)
        ELSE IF n >= LISTING_MAX_POLL_ATTEMPTS
        THEN Step("done", "unset", "unset", "None", "timeout", "none")
        ELSE Step("poll", "unset", "unset", "running", "none", "none")

\* download_and_process_report not treating CANCELLED as terminal
sales_poll_cancelled_runs(rsp, n) ==
    LET st == rsp.processingStatus
    IN  IF st = "absent"
        THEN sales_except("unexpected")
        ELSE IF st \in {"DONE", "FATAL"} \/ n >= SALES_POLL_ATTEMPTS
        THEN IF st # "DONE"
             THEN Step("done", "unset", "None", "empty_table", "status", st)
             ELSE IF rsp.reportDocumentId = "absent"
             THEN sales_except("unexpected")
             ELSE Step("get_report_document", rsp.reportDocumentId, "unset",
                       "running", "none", "none")
        ELSE Step("poll", "unset", "unset", "running", "none", "none")

\* sales_order4.py: one iteration of the loop of download_and_process_report,
\* followed, when the loop ends, by the status check and the doc_id read;
\* a None report_text makes get_sales_summary_data skip the marketplace
sales_poll(rsp, n) ==
    LET st == rsp.processingStatus
    IN  IF st = "absent"
        THEN sales_except("unexpected")
        ELSE IF st \in TerminalStatuses \/ n >= SALES_POLL_ATTEMPTS
        THEN IF st # "DONE"
             THEN Step("done", "unset", "None", "empty_table", "status", st)
             ELSE IF rsp.reportDocumentId = "absent"
             THEN sales_except("unexpected")
             ELSE Step("get_report_document", rsp.reportDocumentId, "unset",
                       "running", "none", "none")
        ELSE Step("poll", "unset", "unset", "running", "none", "none")

\* the handler of an exception of the given kind, per driver
Except(kind) ==
    IF driver = "streamlit_app" THEN streamlit_except(kind)
    ELSE IF driver = "Listing_report" THEN listing_except(kind)
    ELSE sales_except(kind)

Apply(s) ==
    /\ pc' = s.pc
    /\ report_document_id' = s.report_document_id
    /\ report_text' = s.report_text
    /\ result' = s.result
    /\ reported' = s.reported
    /\ reported_status' = s.reported_status

\* create_report is requested and its response handled
CreateReport ==
    /\ pc = "create_report"
    /\ UNCHANGED <<tokenVars, finVars, convertVars, decodeVars, fxVars, fetchVars, orderVars, dateVars, cacheVars>>
    /\ create_report_calls' = create_report_calls + 1
    /\ UNCHANGED <<driver, attempt, get_report_response, processing_status,
                   get_report_calls, document_requests>>
    /\ \/ /\ report_id' = "unset"
          /\ Apply(Except("sp_api"))
       \/ \E idField \in ReportIdFields :
             /\ report_id' = IF driver = "sales_order4" THEN idField ELSE Get(idField)
             /\ Apply(IF driver = "streamlit_app" THEN streamlit_create_report(idField)
                      ELSE IF driver = "Listing_report" THEN listing_create_report(idField)
                      ELSE sales_create_report(idField))

\* one iteration of the polling loop: get_report is requested and its response handled
Poll ==
    /\ pc = "poll"
    /\ UNCHANGED <<tokenVars, finVars, convertVars, decodeVars, fxVars, fetchVars, orderVars, dateVars, cacheVars>>
    /\ attempt' = attempt + 1
    /\ get_report_calls' = get_report_calls + 1
    /\ UNCHANGED <<driver, report_id, create_report_calls, document_requests>>
    /\ \/ /\ UNCHANGED <<get_report_response, processing_status>>
          /\ Apply(Except("sp_api"))
       \/ \E rsp \in GetReportResponses :
             /\ get_report_response' = rsp
             /\ processing_status' =
                    IF driver = "sales_order4"
                    THEN (IF rsp.processingStatus = "absent" THEN processing_status
                          ELSE rsp.processingStatus)
                    ELSE Get(rsp.processingStatus)
             /\ Apply(IF driver = "streamlit_app" THEN streamlit_poll(rsp, attempt + 1)
                      ELSE IF driver = "Listing_report" THEN listing_poll(rsp, attempt + 1)
                      ELSE sales_poll(rsp, attempt + 1))

\* responses of get_report_document: raised, or a payload with or without a url
DocumentOutcomes == {"raise", "no_url", "url"}

\* get_report_document is requested with report_document_id and its response handled
GetReportDocument ==
    /\ pc = "get_report_document"
    /\ UNCHANGED <<tokenVars, finVars, convertVars, decodeVars, fxVars, fetchVars, orderVars, dateVars, cacheVars>>
    /\ document_requests' = Append(document_requests, report_document_id)
    /\ UNCHANGED <<driver, report_id, attempt, get_report_response, processing_status,
                   create_report_calls, get_report_calls>>
    /\ \E o \in DocumentOutcomes :
          Apply(IF o = "raise" THEN Except("sp_api")
                ELSE IF o = "no_url"
                THEN Step("done", report_document_id,
                          IF driver = "sales_order4" THEN "None" ELSE "unset",
                          IF driver = "sales_order4" THEN "empty_table" ELSE "None",
                          "no_url", "none")
                ELSE Step("download", report_document_id, "unset", "running", "none", "none"))

\* outcomes of the download: the GET raised, or the decoded text is blank or has rows
DownloadOutcomes == {"raise", "blank", "rows"}

\* the document is downloaded, decoded and parsed
Download ==
    /\ pc = "download"
    /\ UNCHANGED <<tokenVars, finVars, convertVars, decodeVars, fxVars, fetchVars, orderVars, dateVars, cacheVars>>
    /\ UNCHANGED <<driver, report_id, attempt, get_report_response, processing_status,
                   create_report_calls, get_report_calls, document_requests>>
    /\ \E o \in DownloadOutcomes :
          Apply(IF o = "raise" THEN Except("request")
                ELSE IF o = "blank"
                THEN Step("done", report_document_id, "blank", "empty_table", "none", "none")
                ELSE Step("done", report_document_id, "text", "table", "none", "none"))

(***************************************************************************)
(* Token cache: get_access_token (Extract_sku_details3.py)                 *)
(***************************************************************************)
REGION_GROUPS == {"na", "eu"}
ACCOUNTS == {"Frienemy"}
\* cache_key = (selected_region_group, selected_account)
Keys == REGION_GROUPS \X ACCOUNTS

\* seconds subtracted from expires_in when the expiry is stored
MARGIN_SECONDS == 60

\* the clock does not run past MaxNow
MaxNow == 120

\* access_token values the token endpoint returns
Tokens == {"t1", "t2"}
\* expires_in values the token endpoint returns, in seconds
ExpiresInValues == {30, 60, 90, 120}
\* seconds that pass between two calls
TickValues == {30}
\* seconds a token request takes
RequestDelays == {0, 30}

\* a cache entry: "expires_at" is the empty set for None, else one instant
NoEntry == [present |-> FALSE, token |-> "None", expires_at |-> {}]
\* a placeholder that already holds a token
EmptyEntry_holds_token == [present |-> TRUE, token |-> "t1", expires_at |-> {MaxNow}]
EmptyEntry == [present |-> TRUE, token |-> "None", expires_at |-> {}]

\* outcomes of the POST to the token endpoint
TokenResponses ==
    [kind : {"transport_error", "status_error", "missing_fields"},
     access_token : {"None"}, expires_in : {0}]
    \cup [kind : {"ok"}, access_token : Tokens, expires_in : ExpiresInValues]


\* the cache check applying the margin a second time
CacheFresh_margin_twice(entry, t) ==
    /\ entry.token # "None"
    /\ entry.expires_at # {}
    /\ \A x \in entry.expires_at : t + MARGIN_SECONDS < x

\* the cache check with <= in place of <
CacheFresh_le(entry, t) ==
    /\ entry.token # "None"
    /\ entry.expires_at # {}
    /\ \A x \in entry.expires_at : t <= x

\* lines 60-62: the cached token is used when token and expires_at are set
\* and now is before expires_at
CacheFresh(entry, t) ==
    /\ entry.token # "None"
    /\ entry.expires_at # {}
    /\ \A x \in entry.expires_at : t < x

\* a refresh that stores the expiry but not the token
StoreToken_forgets_token(access_token, expires_in, t) ==
    [present |-> TRUE, token |-> "None",
     expires_at |-> {t + (expires_in - MARGIN_SECONDS)}]

\* lines 88-89: the entry stored by a successful refresh finishing at time t
StoreToken(access_token, expires_in, t) ==
    [present |-> TRUE, token |-> access_token,
     expires_at |-> {t + (expires_in - MARGIN_SECONDS)}]

\* what a call reports: the token returned ("None" for None), whether an
\* exception left the function, the number of token requests it issued, the
\* cache after it and the clock when it ended
CallResult(info, outcome, token, raised, requests, expires_in, t) ==
    [info |-> info, outcome |-> outcome, token |-> token, raised |-> raised,
     requests |-> requests, expires_in |-> expires_in, at |-> t]

\* get_access_token(selected_region_group, selected_account) called at time t
\* with cache info; rsp is what the token endpoint answers after delay d if asked
get_access_token(info, k, t, creds, rsp, d) ==
    LET entry == IF info[k].present THEN info[k] ELSE EmptyEntry
        info1 == [info EXCEPT ![k] = entry]
    IN  IF CacheFresh(entry, t)
        THEN CallResult(info1, "cached", entry.token, FALSE, 0, 0, t)
        ELSE IF k \notin creds
        THEN CallResult(info1, "no_credentials", "None", FALSE, 0, 0, t)
        ELSE IF rsp.kind \in {"transport_error", "status_error"}
        THEN CallResult(info1, "failed", "None", FALSE, 1, 0, t + d)
        ELSE IF rsp.kind = "missing_fields"
        THEN CallResult(info1, "raised", "None", TRUE, 1, 0, t + d)
        ELSE CallResult([info1 EXCEPT ![k] = StoreToken(rsp.access_token, rsp.expires_in, t + d)],
                        "refreshed", rsp.access_token, FALSE, 1, rsp.expires_in, t + d)

\* get_product_details lines 104-106: the call is outside the try block, so an
\* exception leaves get_product_details; no token gives the error result
Dependent(r) ==
    IF r.raised THEN "raised"
    ELSE IF r.token = "None" THEN "error"
    ELSE "proceeds"

\* get_product_details obtains a token for key k
GetAccessToken(k) ==
    /\ UNCHANGED <<driverVars, finVars, convertVars, credentials, decodeVars, fxVars, fetchVars, orderVars, dateVars, cacheVars>>
    /\ \E rsp \in TokenResponses, d \in RequestDelays :
          LET r == get_access_token(access_token_info, k, now, credentials, rsp, d)
          IN  /\ r.at <= MaxNow
              /\ access_token_info' = r.info
              /\ now' = r.at
              /\ last_call' = [seq |-> 1 - last_call.seq, key |-> k,
                               outcome |-> r.outcome, token |-> r.token,
                               raised |-> r.raised, requests |-> r.requests,
                               expires_in |-> r.expires_in, at |-> r.at,
                               expires_at |-> r.info[k].expires_at,
                               dependent |-> Dependent(r)]

\* time passes between two calls
Tick ==
    /\ UNCHANGED <<driverVars, finVars, convertVars, access_token_info, credentials, last_call, decodeVars, fxVars, fetchVars, orderVars, dateVars, cacheVars>>
    /\ \E d \in TickValues :
          /\ now + d <= MaxNow
          /\ now' = now + d

NoCall ==
    [seq |-> 0, key |-> <<"none", "none">>, outcome |-> "none", token |-> "None",
     raised |-> FALSE, requests |-> 0, expires_in |-> 0, at |-> 0,
     expires_at |-> {}, dependent |-> "none"]

(***************************************************************************)
(* process_financial_events (Dashboard.py)                                 *)
(***************************************************************************)
MaxEvents == 2
MaxItems == 2
MaxCharges == 2
MaxFees == 2

\* all sequences over S of length at most n
SeqsUpTo(S, n) == UNION {[1..k -> S] : k \in 0..n}

ChargeTypes == {"Principal", "ShippingCharge", "Tax"}
ChargeCurrencyAmounts == {10, 100}
ChargeCurrencyCodes == {"USD", "EUR"}
FeeCurrencyAmounts == {-15}

\* the ChargeAmount / FeeAmount of an entry: the key may be missing, and the
\* dict may lack CurrencyAmount or CurrencyCode ("absent")
Amount(present, hasAmount, amount, code) ==
    [present |-> present, hasAmount |-> hasAmount, CurrencyAmount |-> amount,
     CurrencyCode |-> code]
NoAmount == Amount(FALSE, FALSE, 0, "absent")
\* no ChargeAmount key, an empty dict, an amount without a code, a code
\* without an amount, and every amount with every code
ChargeAmounts ==
    {NoAmount, Amount(TRUE, FALSE, 0, "absent"), Amount(TRUE, TRUE, 10, "absent"),
     Amount(TRUE, FALSE, 0, "USD")}
    \cup {Amount(TRUE, TRUE, a, c) : a \in ChargeCurrencyAmounts, c \in ChargeCurrencyCodes}
FeeAmounts == {NoAmount} \cup {Amount(TRUE, TRUE, a, "USD") : a \in FeeCurrencyAmounts}

Charges == [ChargeType : ChargeTypes, ChargeAmount : ChargeAmounts]
Fees == [FeeAmount : FeeAmounts]

\* shipment items with every combination of charges and fees
Items ==
    [SellerSKU : {"s1"}, QuantityShipped : {1},
     ItemChargeList : SeqsUpTo(Charges, MaxCharges),
     ItemFeeList : SeqsUpTo(Fees, MaxFees)]

\* the items used where the shape of the payload varies
SampleItems ==
    {[SellerSKU |-> "s1", QuantityShipped |-> 1,
      ItemChargeList |-> <<[ChargeType |-> "Principal",
                            ChargeAmount |-> [present |-> TRUE, hasAmount |-> TRUE,
                                              CurrencyAmount |-> 100,
                                              CurrencyCode |-> "USD"]]>>,
      ItemFeeList |-> <<[FeeAmount |-> [present |-> TRUE, hasAmount |-> TRUE,
                                        CurrencyAmount |-> -15,
                                        CurrencyCode |-> "USD"]]>>],
     [SellerSKU |-> "s2", QuantityShipped |-> 2,
      ItemChargeList |-> <<>>, ItemFeeList |-> <<>>]}

Event(id, items) ==
    [AmazonOrderId |-> id, PostedDate |-> "2024-01-01", MarketplaceName |-> "Amazon.com",
     ShipmentItemList |-> items]

Payload(hasFE, hasSEL, events) ==
    [hasFinancialEvents |-> hasFE, hasShipmentEventList |-> hasSEL,
     ShipmentEventList |-> events]

\* the payload of one event with one item
SingleItemPayload(item) == Payload(TRUE, TRUE, <<Event("o1", <<item>>)>>)

\* events of up to maxItems sample items
SampleEvents(maxItems) ==
    {Event(id, is) : id \in {"o1", "o2"}, is \in SeqsUpTo(SampleItems, maxItems)}

\* payloads without the FinancialEvents or the ShipmentEventList key
KeylessPayloads == {Payload(FALSE, FALSE, <<>>), Payload(TRUE, FALSE, <<>>)}

\* x.get('ChargeAmount', {}).get('CurrencyAmount', 0)
CurrencyAmountOf(a) == IF a.present /\ a.hasAmount THEN a.CurrencyAmount ELSE 0

\* the loop of lines 122-128 for one charge type
RECURSIVE SumCharges(_, _)
SumCharges(charges, type) ==
    IF charges = <<>> THEN 0
    ELSE (IF Head(charges).ChargeType = type
          THEN CurrencyAmountOf(Head(charges).ChargeAmount) ELSE 0)
         + SumCharges(Tail(charges), type)

\* the loop of lines 130-132
RECURSIVE SumFees(_)
SumFees(fees) ==
    IF fees = <<>> THEN 0
    ELSE CurrencyAmountOf(Head(fees).FeeAmount) + SumFees(Tail(fees))

\* truthiness of c.get('ChargeAmount'): a missing key or an empty dict is falsy
ChargeAmountTruthy(a) == a.present /\ (a.hasAmount \/ a.CurrencyCode # "absent")

\* line 134: the CurrencyCode (None when missing) of the first charge whose
\* ChargeAmount is truthy; None when there is no such charge
RECURSIVE FirstCurrency(_)
FirstCurrency(charges) ==
    IF charges = <<>> THEN "None"
    ELSE IF ChargeAmountTruthy(Head(charges).ChargeAmount)
    THEN Get(Head(charges).ChargeAmount.CurrencyCode)
    ELSE FirstCurrency(Tail(charges))

\* line 136
TotalRevenue(item_price, shipping_price) == item_price + shipping_price

\* net proceeds with the fees subtracted instead of added
NetProceeds_subtracts_fees(total_revenue, amazon_fees) == total_revenue - amazon_fees

\* line 137
NetProceeds(total_revenue, amazon_fees) == total_revenue + amazon_fees

\* lines 114-149: the record appended for one shipment item
ItemRecord(event, item) ==
    LET item_price == SumCharges(item.ItemChargeList, "Principal")
        shipping_price == SumCharges(item.ItemChargeList, "ShippingCharge")
        amazon_fees == SumFees(item.ItemFeeList)
        total_revenue == TotalRevenue(item_price, shipping_price)
    IN  [c \in {"amazon-order-id", "purchase-date", "sales-channel", "sku",
                "quantity-purchased", "currency", "Total Revenue", "Net Proceeds",
                "Amazon Fees"} |->
           CASE c = "amazon-order-id" -> event.AmazonOrderId
             [] c = "purchase-date" -> event.PostedDate
             [] c = "sales-channel" -> event.MarketplaceName
             [] c = "sku" -> item.SellerSKU
             [] c = "quantity-purchased" -> item.QuantityShipped
             [] c = "currency" -> FirstCurrency(item.ItemChargeList)
             [] c = "Total Revenue" -> total_revenue
             [] c = "Net Proceeds" -> NetProceeds(total_revenue, amazon_fees)
             [] c = "Amazon Fees" -> amazon_fees]

\* the item loop skipping the items that have no charges
RECURSIVE EventRecords_skips_chargeless(_, _)
EventRecords_skips_chargeless(event, items) ==
    IF items = <<>> THEN <<>>
    ELSE (IF Head(items).ItemChargeList = <<>> THEN <<>>
          ELSE <<ItemRecord(event, Head(items))>>)
         \o EventRecords_skips_chargeless(event, Tail(items))

\* the records of the items of one event, in item order
RECURSIVE EventRecords(_, _)
EventRecords(event, items) ==
    IF items = <<>> THEN <<>>
    ELSE <<ItemRecord(event, Head(items))>> \o EventRecords(event, Tail(items))

\* the records of all events, in event order
RECURSIVE ProcessedRecords(_)
ProcessedRecords(events) ==
    IF events = <<>> THEN <<>>
    ELSE EventRecords(Head(events), Head(events).ShipmentItemList)
         \o ProcessedRecords(Tail(events))

\* a table: its column names and its rows (functions from column to value)
Table(columns, rows) == [columns |-> columns, rows |-> rows]

\* pd.DataFrame(): no columns, no rows
EmptyDataFrame == Table({}, <<>>)

\* process_financial_events building the table from a placeholder record when
\* nothing was collected
process_financial_events_placeholder_row(p) ==
    LET shipment_events ==
            IF p.hasFinancialEvents /\ p.hasShipmentEventList
            THEN p.ShipmentEventList ELSE <<>>
        processed_records == ProcessedRecords(shipment_events)
    IN  IF processed_records = <<>>
        THEN Table({"sku"}, <<[c \in {"sku"} |-> "None"]>>)
        ELSE Table(DOMAIN processed_records[1], processed_records)

\* process_financial_events(financial_events_payload)
process_financial_events(p) ==
    LET shipment_events ==
            IF p.hasFinancialEvents /\ p.hasShipmentEventList
            THEN p.ShipmentEventList ELSE <<>>
        processed_records == ProcessedRecords(shipment_events)
    IN  IF processed_records = <<>>
        THEN EmptyDataFrame
        ELSE Table(DOMAIN processed_records[1], processed_records)

\* one page of financial events is parsed
ProcessFinancialEvents ==
    /\ fin_pc = "input"
    /\ fin_pc' = "processed"
    /\ page_df' = process_financial_events(financial_events_payload)
    /\ UNCHANGED <<driverVars, tokenVars, convertVars, financial_events_payload, decodeVars, fxVars, fetchVars, orderVars, dateVars, cacheVars>>

(***************************************************************************)
(* convert_df_to_inr (Dashboard.py)                                        *)
(***************************************************************************)
MaxRows == 2
MaxConversions == 2

\* exchange rates; 1 stands for the rate 1.0
RateValues == {1, 83}
RateCurrencies == {"USD", "EUR"}
\* rate tables: a rate for each currency of some subset of the currencies
RateTables == UNION {[cs -> RateValues] : cs \in SUBSET RateCurrencies}

\* the converted column of each monetary column
InrColumn(c) ==
    CASE c = "Total Revenue" -> "Total Revenue (INR)"
      [] c = "Net Proceeds" -> "Net Proceeds (INR)"
      [] c = "Amazon Fees" -> "Amazon Fees (INR)"
      [] c = "Expenses" -> "Expenses (INR)"
      [] c = "Courier Charges" -> "Courier Charges (INR)"

\* lines 168-170: always converted
FinancialColumns == {"Total Revenue", "Net Proceeds", "Amazon Fees"}
\* lines 173-176: converted if they exist
ExpenseColumns == {"Expenses", "Courier Charges"}

\* a missing rate read as 0 instead of 1.0
RowRate_missing_is_zero(row, rate_table) ==
    IF row["currency"] \in DOMAIN rate_table THEN rate_table[row["currency"]] ELSE 0

\* line 167: df['currency'].map(rates).fillna(1.0), for one row
RowRate(row, rate_table) ==
    IF row["currency"] \in DOMAIN rate_table THEN rate_table[row["currency"]] ELSE 1

\* the expense columns left out of the conversion
ConvertedSources_skips_expenses(columns) == FinancialColumns

\* the columns convert_df_to_inr multiplies in a table with these columns
ConvertedSources(columns) == FinancialColumns \cup (ExpenseColumns \cap columns)

\* lines 167-178 for one row
ConvertRow(row, columns, rate_table) ==
    LET rate == RowRate(row, rate_table)
        sources == ConvertedSources(columns)
        added == {InrColumn(m) : m \in sources}
    IN  [c \in columns \cup added |->
           IF c \in added
           THEN LET m == CHOOSE m \in sources : InrColumn(m) = c IN row[m] * rate
           ELSE row[c]]

\* convert_df_to_inr(df, rates)
convert_df_to_inr(df, rate_table) ==
    IF DOMAIN rate_table = {}
    THEN df
    ELSE Table(df.columns \cup {InrColumn(m) : m \in ConvertedSources(df.columns)},
               [i \in DOMAIN df.rows |-> ConvertRow(df.rows[i], df.columns, rate_table)])

\* items whose records make up the tables that are converted
ConvertItems ==
    SampleItems
    \cup {[SellerSKU |-> "s3", QuantityShipped |-> 1,
           ItemChargeList |-> <<[ChargeType |-> "Principal",
                                 ChargeAmount |-> [present |-> TRUE, hasAmount |-> TRUE,
                                                   CurrencyAmount |-> 100,
                                                   CurrencyCode |-> "EUR"]],
                                [ChargeType |-> "ShippingCharge",
                                 ChargeAmount |-> [present |-> TRUE, hasAmount |-> TRUE,
                                                   CurrencyAmount |-> 10,
                                                   CurrencyCode |-> "EUR"]]>>,
           ItemFeeList |-> <<>>],
          [SellerSKU |-> "s4", QuantityShipped |-> 1,
           ItemChargeList |-> <<>>,
           ItemFeeList |-> <<[FeeAmount |-> [present |-> TRUE, hasAmount |-> TRUE,
                                             CurrencyAmount |-> -15,
                                             CurrencyCode |-> "USD"]]>>]}

\* values of the uploaded expense columns after the merge and fillna(0)
ExpenseValues == {0, 5}

\* main_dashboard lines 412-413: the expense columns merged onto a record
WithExpenses(row, expenses, courier) ==
    [c \in DOMAIN row \cup ExpenseColumns |->
       IF c = "Expenses" THEN expenses
       ELSE IF c = "Courier Charges" THEN courier
       ELSE row[c]]

\* the non-empty tables main_dashboard hands to convert_df_to_inr: records of
\* process_financial_events, with or without the merged expense columns
ConvertInputs ==
    LET plain == {ItemRecord(Event("o1", <<i>>), i) : i \in ConvertItems}
        merged == {WithExpenses(r, e, e) : r \in plain, e \in ExpenseValues}
    IN  {Table(DOMAIN rs[1], rs) : rs \in SeqsUpTo(plain, MaxRows) \ {<<>>}}
        \cup {Table(DOMAIN rs[1], rs) : rs \in SeqsUpTo(merged, MaxRows) \ {<<>>}}

\* the table is converted with some rate table
ConvertDfToInr ==
    /\ conversions < MaxConversions
    /\ conversions' = conversions + 1
    /\ \E rate_table \in RateTables :
          /\ rates' = rate_table
          /\ source_df' = financial_df
          /\ financial_df' = convert_df_to_inr(financial_df, rate_table)
    /\ UNCHANGED <<driverVars, tokenVars, finVars, decodeVars, fxVars, fetchVars, orderVars, dateVars, cacheVars>>

(***************************************************************************)
(* Document decoder: decompression and text decoding of the downloaded     *)
(* bytes (streamlit_app.py, Listing_report.py, sales_order4.py)            *)
(***************************************************************************)
\* values of payload.get('compressionAlgorithm'): absent, or a named scheme
CompressionAlgorithms == {"None", "GZIP", "ZLIB", "BROTLI"}

\* the texts a report document holds
ReportTexts == {"", "sku\tasin", "sku\tprice"}

\* downloaded bytes: a text in a character encoding, as such or in a gzip or
\* zlib container; charset "latin-1" stands for bytes that are not valid UTF-8
ByteFormats == {"plain", "gzip", "zlib"}
Charsets == {"utf-8", "latin-1"}
ContentBytes ==
    {b \in [format : ByteFormats, charset : Charsets, text : ReportTexts] :
        b.text = "" => b.charset = "utf-8"}

\* the text read from bytes that are still compressed
Mojibake == "mojibake"

Decompressed(b) == [raised |-> "none", bytes |-> b]
DecompressError(kind, b) == [raised |-> kind, bytes |-> b]

\* gzip.decompress: raises on bytes that are no gzip container
gzip_decompress(b) ==
    IF b.format = "gzip"
    THEN Decompressed([b EXCEPT !.format = "plain"])
    ELSE DecompressError("BadGzipFile", b)

\* zlib.decompress: raises on bytes that are no zlib stream
zlib_decompress(b) ==
    IF b.format = "zlib"
    THEN Decompressed([b EXCEPT !.format = "plain"])
    ELSE DecompressError("zlib.error", b)

\* bytes.decode('utf-8') succeeds on plain UTF-8 bytes only
Utf8Decodable(b) == b.format = "plain" /\ b.charset = "utf-8"

\* bytes.decode('latin-1') never raises; compressed bytes read as garbage
decode_latin1(b) == IF b.format = "plain" THEN b.text ELSE Mojibake

\* try: decode('utf-8') except UnicodeDecodeError: decode('latin-1')
decode_text(b) == IF Utf8Decodable(b) THEN b.text ELSE decode_latin1(b)

Decoded(raised, text) == [raised |-> raised, text |-> text]

\* decoding after a decompression step that may have raised
DecodeAfter(d) ==
    IF d.raised # "none" THEN Decoded(d.raised, "unset")
    ELSE Decoded("none", decode_text(d.bytes))

\* streamlit_app.py: GZIP and ZLIB are decompressed, anything else is raw
streamlit_decode(alg, b) ==
    IF alg = "GZIP" THEN DecodeAfter(gzip_decompress(b))
    ELSE IF alg = "ZLIB" THEN DecodeAfter(zlib_decompress(b))
    ELSE DecodeAfter(Decompressed(b))

\* Listing_report.py: only GZIP is decompressed
listing_decode(alg, b) ==
    IF alg = "GZIP" THEN DecodeAfter(gzip_decompress(b))
    ELSE DecodeAfter(Decompressed(b))

\* sales_order4.py: only GZIP is decompressed
sales_decode(alg, b) ==
    IF alg = "GZIP" THEN DecodeAfter(gzip_decompress(b))
    ELSE DecodeAfter(Decompressed(b))

\* the downloaded bytes are decompressed and decoded
Decode ==
    /\ decode_pc = "downloaded"
    /\ decode_pc' = "decoded"
    /\ decoded' = IF decode_driver = "streamlit_app"
                  THEN streamlit_decode(compression_algorithm, report_content_bytes)
                  ELSE IF decode_driver = "Listing_report"
                  THEN listing_decode(compression_algorithm, report_content_bytes)
                  ELSE sales_decode(compression_algorithm, report_content_bytes)
    /\ UNCHANGED <<decode_driver, compression_algorithm, report_content_bytes>>
    /\ UNCHANGED <<driverVars, tokenVars, finVars, convertVars, fxVars, fetchVars, orderVars, dateVars, cacheVars>>

(***************************************************************************)
(* The decoder on bytes: texts are sequences of code points, documents are  *)
(* sequences of bytes (streamlit_app.py, Listing_report.py,                 *)
(* sales_order4.py)                                                         *)
(***************************************************************************)

MaxTextLen == 2

\* "A", "e" with acute accent, the euro sign: one, two and three UTF-8 bytes
CodePoints == {65, 233, 8364}

TextBlobs == SeqsUpTo(CodePoints, MaxTextLen)

utf8_encode_char(c) ==
    IF c < 128 THEN <<c>>
    ELSE IF c < 2048 THEN <<192 + (c \div 64), 128 + (c % 64)>>
    ELSE <<224 + (c \div 4096), 128 + ((c \div 64) % 64), 128 + (c % 64)>>

\* str.encode('utf-8')
RECURSIVE utf8_encode(_)
utf8_encode(text) ==
    IF text = <<>> THEN <<>>
    ELSE utf8_encode_char(Head(text)) \o utf8_encode(Tail(text))

\* bytes.decode('utf-8'): the text, or UnicodeDecodeError on a byte sequence
\* that is not valid UTF-8
RECURSIVE utf8_decode(_)
utf8_decode(b) ==
    IF b = <<>> THEN [raised |-> "none", text |-> <<>>]
    ELSE LET b1 == b[1]
             n == IF b1 < 128 THEN 1
                  ELSE IF b1 >= 194 /\ b1 < 224 THEN 2
                  ELSE IF b1 >= 224 /\ b1 < 240 THEN 3
                  ELSE 0
             valid == /\ n > 0
                      /\ Len(b) >= n
                      /\ \A i \in 2..n : b[i] >= 128 /\ b[i] < 192
             c == IF n = 1 THEN b1
                  ELSE IF n = 2 THEN (b1 - 192) * 64 + (b[2] - 128)
                  ELSE (b1 - 224) * 4096 + (b[2] - 128) * 64 + (b[3] - 128)
         IN IF ~valid \/ (n = 3 /\ c < 2048)
            THEN [raised |-> "UnicodeDecodeError", text |-> <<>>]
            ELSE LET rest == utf8_decode(SubSeq(b, n + 1, Len(b)))
                 IN IF rest.raised # "none" THEN rest
                    ELSE [raised |-> "none", text |-> <<c>> \o rest.text]

\* bytes.decode('latin-1'): every byte is the code point of its value
latin1_decode(b) == b

\* try: decode('utf-8') except UnicodeDecodeError: decode('latin-1')
decode_bytes_latin1_only(b) == latin1_decode(b)
decode_bytes(b) ==
    IF utf8_decode(b).raised = "none" THEN utf8_decode(b).text ELSE latin1_decode(b)

\* a gzip member: the magic bytes 1f 8b, the method byte, the payload (stored)
\* and the size trailer
gzip_compress(b) == <<31, 139, 8>> \o b \o <<Len(b) % 256>>

\* gzip.decompress on bytes: the payload, or BadGzipFile
gzip_decompress_bytes(b) ==
    IF /\ Len(b) >= 4
       /\ SubSeq(b, 1, 3) = <<31, 139, 8>>
       /\ b[Len(b)] = (Len(b) - 4) % 256
    THEN [raised |-> "none", bytes |-> SubSeq(b, 4, Len(b) - 1)]
    ELSE [raised |-> "BadGzipFile", bytes |-> <<>>]

\* a zlib stream: the header bytes 78 9c, the payload (stored) and the
\* checksum trailer
zlib_compress(b) == <<120, 156>> \o b \o <<(Len(b) + 1) % 256>>

\* zlib.decompress on bytes: the payload, or zlib.error
zlib_decompress_bytes(b) ==
    IF /\ Len(b) >= 3
       /\ SubSeq(b, 1, 2) = <<120, 156>>
       /\ b[Len(b)] = (Len(b) - 2) % 256
    THEN [raised |-> "none", bytes |-> SubSeq(b, 3, Len(b) - 1)]
    ELSE [raised |-> "zlib.error", bytes |-> <<>>]

\* the decompression step of each driver: streamlit_app.py handles GZIP and
\* ZLIB, Listing_report.py and sales_order4.py GZIP only
decompress_step(d, alg, b) ==
    IF alg = "GZIP" THEN gzip_decompress_bytes(b)
    ELSE IF alg = "ZLIB" /\ d = "streamlit_app" THEN zlib_decompress_bytes(b)
    ELSE [raised |-> "none", bytes |-> b]

\* the documents handed to the decoder: a text's UTF-8 bytes or its latin-1
\* bytes (one byte of the code point's value per character), as such or
\* compressed
DocumentBytes ==
    LET plain == {utf8_encode(t) : t \in TextBlobs}
                  \cup SeqsUpTo({65, 233}, MaxTextLen)
    IN plain \cup {gzip_compress(b) : b \in plain} \cup {zlib_compress(b) : b \in plain}

\* the downloaded bytes are decompressed and decoded
DecodeBytes ==
    /\ decode_pc = "downloaded"
    /\ decode_pc' = "decoded"
    /\ LET d == decompress_step(decode_driver, compression_algorithm,
                                report_content_bytes)
       IN decoded' = IF d.raised # "none"
                     THEN [raised |-> d.raised, text |-> <<>>]
                     ELSE [raised |-> "none", text |-> decode_bytes(d.bytes)]
    /\ UNCHANGED <<decode_driver, compression_algorithm, report_content_bytes>>
    /\ UNCHANGED <<driverVars, tokenVars, finVars, convertVars, fxVars, fetchVars, orderVars, dateVars, cacheVars>>

(***************************************************************************)
(* Exchange rate tables: get_dynamic_conversion_rates (Dashboard.py) and   *)
(* get_conversion_rates (sales_order4.py)                                  *)
(***************************************************************************)
MaxCurrencies == 3

FxApps == {"Dashboard", "sales_order4"}

\* Dashboard.py: target_currency="INR"
TARGET_CURRENCY == "INR"
\* sales_order4.py: get_conversion_rates("USD")
BASE_CURRENCY == "USD"

\* values of financial_df['currency'].unique(): codes, and None for the rows
\* without a currency
DashboardCurrencies == {"USD", "EUR", "INR", "None"}
\* values of get_currency_code_for_marketplace for the selected marketplaces
SalesCurrencies == {"USD", "EUR", "GBP"}

\* rates the service quotes
QuotedRates == {83, 90}

\* sequences of distinct elements of S, of length 1..n
DistinctSeqs(S, n) ==
    {q \in UNION {[1..k -> S] : k \in 1..n} :
        \A i, j \in DOMAIN q : i # j => q[i] # q[j]}

\* a table with the entry of currency c set to rate v
WithRate(table, c, v) ==
    [x \in DOMAIN table \cup {c} |-> IF x = c THEN v ELSE table[x]]

\* what one request to the rate service does: the request raises (transport
\* error or error status), the answer lacks the rate, or it delivers a rate;
\* no rate is quoted for None
FxOutcome(kind, v) == [kind |-> kind, value |-> v]
FxOutcomes(c) ==
    {FxOutcome("raise", 0), FxOutcome("no_rate", 0)}
    \cup (IF c = "None" THEN {} ELSE {FxOutcome("value", v) : v \in QuotedRates})

\* the loop body of get_dynamic_conversion_rates dropping a currency whose
\* fetch failed
dashboard_rate_skips_failed(table, c, o) ==
    IF c = TARGET_CURRENCY THEN WithRate(table, c, 1)
    ELSE IF o.kind = "value" THEN WithRate(table, c, o.value)
    ELSE table

\* Dashboard.py lines 65-77: one iteration of the loop of
\* get_dynamic_conversion_rates, for currency c and request outcome o
dashboard_rate(table, c, o) ==
    IF c = TARGET_CURRENCY THEN WithRate(table, c, 1)
    ELSE IF o.kind = "value" THEN WithRate(table, c, o.value)
    ELSE WithRate(table, c, 1)

\* one iteration of the loop of get_dynamic_conversion_rates
DashboardFetchRate ==
    /\ fx_app = "Dashboard"
    /\ fx_pc = "fetch"
    /\ fx_i < Len(fx_currencies)
    /\ LET c == fx_currencies[fx_i + 1]
       IN  \E o \in FxOutcomes(c) :
              /\ fx_rates' = dashboard_rate(fx_rates, c, o)
              /\ fx_requests' = IF c = TARGET_CURRENCY THEN fx_requests
                                ELSE fx_requests + 1
              /\ fx_fetched' = IF c # TARGET_CURRENCY /\ o.kind = "value"
                               THEN WithRate(fx_fetched, c, o.value)
                               ELSE fx_fetched
              /\ fx_failed' = IF c # TARGET_CURRENCY /\ o.kind # "value"
                              THEN fx_failed \cup {c}
                              ELSE fx_failed
    /\ fx_i' = fx_i + 1
    /\ fx_pc' = IF fx_i + 1 = Len(fx_currencies) THEN "done" ELSE "fetch"
    /\ UNCHANGED <<fx_app, fx_currencies>>
    /\ UNCHANGED <<driverVars, tokenVars, finVars, convertVars, decodeVars, fetchVars, orderVars, dateVars, cacheVars>>

\* the answers of the rate service to sales_order4's single request: the
\* rates of some of the currencies other than the base
SalesRateAnswers ==
    UNION {[cs -> QuotedRates] : cs \in SUBSET (SalesCurrencies \ {BASE_CURRENCY})}

\* sales_order4.py lines 64-76: get_conversion_rates, the request raising or
\* answering with the given rates
get_conversion_rates(raised, answer) ==
    IF raised THEN WithRate(<<>>, BASE_CURRENCY, 1)
    ELSE WithRate(answer, BASE_CURRENCY, 1)

\* sales_order4.py line 164: conversion_rates.get(currency_code, 1.0)
sales_rate(table, c) ==
    IF c \in DOMAIN table THEN table[c] ELSE 1

\* the currencies of a sequence
Range(q) == {q[i] : i \in DOMAIN q}

\* get_conversion_rates("USD") is called
SalesFetchRates ==
    /\ fx_app = "sales_order4"
    /\ fx_pc = "fetch"
    /\ fx_pc' = "done"
    /\ fx_requests' = fx_requests + 1
    /\ fx_i' = Len(fx_currencies)
    /\ \/ /\ fx_rates' = get_conversion_rates(TRUE, <<>>)
          /\ fx_fetched' = <<>>
          /\ fx_failed' = Range(fx_currencies) \ {BASE_CURRENCY}
       \/ \E answer \in SalesRateAnswers :
             /\ fx_rates' = get_conversion_rates(FALSE, answer)
             /\ fx_fetched' = answer
             /\ fx_failed' = Range(fx_currencies) \ (DOMAIN answer \cup {BASE_CURRENCY})
    /\ UNCHANGED <<fx_app, fx_currencies>>
    /\ UNCHANGED <<driverVars, tokenVars, finVars, convertVars, decodeVars, fetchVars, orderVars, dateVars, cacheVars>>

(***************************************************************************)
(* Financial data fetch: fetch_financial_data_chunk,                       *)
(* fetch_financial_data_in_chunks and main_dashboard (Dashboard.py)        *)
(***************************************************************************)
MaxChunks == 2
MaxPages == 2

\* line 234: regions_to_process
REGIONS_TO_PROCESS == <<"na", "eu">>

\* the order id of the event the service lists on a page of a chunk
OrderId(region, chunk, page) ==
    region \o "-" \o ToString(chunk) \o "-" \o ToString(page)

\* the items of the events the service lists
FetchItems == {i \in SampleItems : i.ItemChargeList # <<>>}

\* a response of list_financial_events: it raised, or it carries a payload
\* and possibly a NextToken
PageResponse(raised, payload, token) ==
    [raised |-> raised, payload |-> payload, NextToken |-> token]

\* the NextToken the service hands out with a page that has a successor
PageToken(page) == "t" \o ToString(page)

\* the page the service serves for a NextToken argument: the first page for
\* None, else the successor of the page the token came with
PageOfToken(token) ==
    IF token = "None" THEN 1
    ELSE 1 + (CHOOSE p \in 1..MaxPages : PageToken(p) = token)

\* the responses to the request of a page of a chunk: an exception, a payload
\* without FinancialEvents, an empty event list, or one event with one item
\* and possibly a NextToken; the service ends the pagination at MaxPages pages
PageResponses(region, chunk, page) ==
    {PageResponse(TRUE, Payload(FALSE, FALSE, <<>>), "absent"),
     PageResponse(FALSE, Payload(FALSE, FALSE, <<>>), "absent"),
     PageResponse(FALSE, Payload(TRUE, TRUE, <<>>), "absent")}
    \cup {PageResponse(FALSE, Payload(TRUE, TRUE, <<Event(OrderId(region, chunk, page), <<i>>)>>), t) :
            i \in FetchItems,
            t \in IF page < MaxPages THEN {"absent", PageToken(page)} ELSE {"absent"}}

\* what a fetch_financial_data_chunk call returned: None or a table, why,
\* the rows it had collected, the requests it sent and the error it showed
ChunkReturn(region, chunk, returned, cause, rows, requests, message) ==
    [region |-> region, chunk |-> chunk, result |-> returned, cause |-> cause,
     rows |-> rows, requests |-> requests, reported |-> message]

NoReturn == ChunkReturn("none", 0, "None", "none", <<>>, 0, "none")

\* line 226: all_events_df if not all_events_df.empty else None
chunk_result(rows) == IF rows # <<>> THEN "table" ELSE "None"

\* lines 249-250: the chunk's rows are added unless it returned None or is empty
concat_chunk(data, ret) ==
    IF ret.result # "None" /\ ret.rows # <<>> THEN data \o ret.rows ELSE data

\* the loops of fetch_financial_data_in_chunks stopping at the first chunk
\* that returned None
NextPosition_stops_on_failure(ret, r, k, n) ==
    IF ret.result = "None" THEN [pc |-> "returned", region_i |-> r, chunk_i |-> k]
    ELSE IF k < n THEN [pc |-> "chunk", region_i |-> r, chunk_i |-> k + 1]
    ELSE IF r < Len(REGIONS_TO_PROCESS) THEN [pc |-> "chunk", region_i |-> r + 1, chunk_i |-> 1]
    ELSE [pc |-> "returned", region_i |-> r, chunk_i |-> k]

\* lines 237-258: after a chunk returned, the next chunk of the region, the
\* first chunk of the next region, or the return
NextPosition(ret, r, k, n) ==
    IF k < n THEN [pc |-> "chunk", region_i |-> r, chunk_i |-> k + 1]
    ELSE IF r < Len(REGIONS_TO_PROCESS) THEN [pc |-> "chunk", region_i |-> r + 1, chunk_i |-> 1]
    ELSE [pc |-> "returned", region_i |-> r, chunk_i |-> k]

\* fetch_financial_data_chunk returns to fetch_financial_data_in_chunks
\* (lines 247-258)
ChunkReturns(ret) ==
    /\ last_return' = ret
    /\ succeeded_chunks' = IF ret.result # "None"
                           THEN succeeded_chunks \cup {<<ret.region, ret.chunk>>}
                           ELSE succeeded_chunks
    /\ failed_chunks' = IF ret.reported # "none"
                        THEN failed_chunks \cup {<<ret.region, ret.chunk>>}
                        ELSE failed_chunks
    /\ all_data_df' = concat_chunk(all_data_df, ret)
    /\ LET next == NextPosition(ret, region_i, chunk_i, n_chunks)
       IN  /\ fetch_pc' = next.pc
           /\ region_i' = next.region_i
           /\ chunk_i' = next.chunk_i

\* fetch_financial_data_chunk is called for the current region and chunk:
\* lines 187-199, the credentials check
FetchChunk ==
    /\ fetch_pc = "chunk"
    /\ pages' = 0
    /\ next_token' = "None"
    /\ request_token' = "unset"
    /\ all_events_df' = <<>>
    /\ attempted_chunks' = Append(attempted_chunks, <<REGIONS_TO_PROCESS[region_i], chunk_i>>)
    /\ LET region == REGIONS_TO_PROCESS[region_i]
       IN  IF region \notin env_credentials
           THEN ChunkReturns(ChunkReturn(region, chunk_i, "None", "credentials", <<>>,
                                         0, "credentials"))
           ELSE /\ fetch_pc' = "page"
                /\ UNCHANGED <<last_return, succeeded_chunks, failed_chunks,
                               all_data_df, region_i, chunk_i>>
    /\ UNCHANGED <<env_credentials, n_chunks, requested_regions,
                   session_financial_df, ui_state>>
    /\ UNCHANGED <<driverVars, tokenVars, finVars, convertVars, decodeVars, fxVars, orderVars, dateVars, cacheVars>>

\* a page loop that asks for the first page every time
request_argument_always_none(token) == "None"

\* lines 204-208: NextToken=next_token
request_argument(token) == token

\* one iteration of the page loop (lines 202-220), with the except clause
\* (lines 222-224) and the return (line 226)
FetchPage ==
    /\ fetch_pc = "page"
    /\ pages' = pages + 1
    /\ request_token' = request_argument(next_token)
    /\ LET region == REGIONS_TO_PROCESS[region_i]
       IN  /\ requested_regions' = requested_regions \cup {region}
           /\ \E rsp \in PageResponses(region, chunk_i,
                                       PageOfToken(request_argument(next_token))) :
                 IF rsp.raised
                 THEN /\ ChunkReturns(ChunkReturn(region, chunk_i, "None", "exception",
                                                  all_events_df, pages + 1, "exception"))
                      /\ UNCHANGED <<next_token, all_events_df>>
                 ELSE LET events == all_events_df \o process_financial_events(rsp.payload).rows
                      IN  /\ all_events_df' = events
                          /\ next_token' = Get(rsp.NextToken)
                          /\ IF Truthy(Get(rsp.NextToken))
                             THEN UNCHANGED <<fetch_pc, last_return, succeeded_chunks,
                                              failed_chunks, all_data_df, region_i, chunk_i>>
                             ELSE ChunkReturns(ChunkReturn(region, chunk_i,
                                                           chunk_result(events),
                                                           IF events = <<>> THEN "empty"
                                                           ELSE "ok",
                                                           events, pages + 1, "none"))
    /\ UNCHANGED <<env_credentials, n_chunks, attempted_chunks, session_financial_df,
                   ui_state>>
    /\ UNCHANGED <<driverVars, tokenVars, finVars, convertVars, decodeVars, fxVars, orderVars, dateVars, cacheVars>>

\* line 426: pd.to_datetime(...).dt.strftime('%d-%b-%y')
FormatPurchaseDate(d) == IF d = "2024-01-01" THEN "01-Jan-24" ELSE d

\* the rate table get_dynamic_conversion_rates builds for the given request
\* outcome of each currency
RatesFor(outcomes) ==
    [c \in DOMAIN outcomes |-> dashboard_rate(<<>>, c, outcomes[c])[c]]

\* main_dashboard lines 405-430 for a non-empty table: the optional expense
\* merge, the conversion and the date format
DashboardTable(rows, merge, expense, outcomes) ==
    LET merged == IF ~merge THEN rows
                  ELSE [i \in DOMAIN rows |-> WithExpenses(rows[i], expense, expense)]
        converted == convert_df_to_inr(Table(DOMAIN merged[1], merged), RatesFor(outcomes))
    IN  Table(converted.columns,
              [i \in DOMAIN converted.rows |->
                 [converted.rows[i] EXCEPT !["purchase-date"] = FormatPurchaseDate(@)]])

\* st.session_state.financial_df: not set, None, or a table
SessionUnset == [value |-> "unset", table |-> EmptyDataFrame]
SessionNone == [value |-> "None", table |-> EmptyDataFrame]
SessionTable(t) == [value |-> "table", table |-> t]

\* main_dashboard after fetch_financial_data_in_chunks returned (lines 403-433)
MainDashboard ==
    /\ fetch_pc = "returned"
    /\ fetch_pc' = "done"
    /\ IF all_data_df # <<>>
       THEN /\ \E merge \in BOOLEAN :
               \E expense \in IF merge THEN ExpenseValues ELSE {0} :
               \E outcomes \in [{r["currency"] : r \in Range(all_data_df)} ->
                                   UNION {FxOutcomes(c) : c \in DashboardCurrencies}] :
                  /\ \A c \in DOMAIN outcomes : outcomes[c] \in FxOutcomes(c)
                  /\ session_financial_df' =
                        SessionTable(DashboardTable(all_data_df, merge, expense, outcomes))
            /\ ui_state' = "dashboard"
       ELSE /\ session_financial_df' = SessionNone
            /\ ui_state' = "error"
    /\ UNCHANGED <<env_credentials, n_chunks, region_i, chunk_i, pages, next_token,
                   request_token, all_events_df, all_data_df, attempted_chunks, last_return,
                   succeeded_chunks, failed_chunks, requested_regions>>
    /\ UNCHANGED <<driverVars, tokenVars, finVars, convertVars, decodeVars, fxVars, orderVars, dateVars, cacheVars>>

(***************************************************************************)
(* Order details (sales_order4.py: get_refresh_token_for_region,           *)
(* get_order_details, get_product_details_for_order)                       *)
(***************************************************************************)

MaxOrderItems == 2

\* the regions of the marketplaces' endpoints
OrderRegions == {"na", "eu", "fe"}

\* get_refresh_token_for_region: the token of the marketplace's region, or
\* None after a warning when the environment has none
get_refresh_token_for_region(tokens, region) ==
    IF region \in tokens
    THEN [token |-> "token", reported |-> {}]
    ELSE [token |-> "None", reported |-> {"warning_token_missing"}]

\* what building an sp_api client can do: the library is not part of the
\* repository; with a None refresh token it may accept or reject the
\* credentials
ClientOutcomes(token) ==
    IF token = "None" THEN {"client", "Exception"} ELSE {"client"}

\* what one request through an sp_api client can do: a request made without
\* a refresh token cannot be authorised and raises
ApiOutcomes(token) ==
    IF token = "None"
    THEN {"SellingApiException", "Exception"}
    ELSE {"payload", "SellingApiException", "Exception"}

\* the message of get_order_details' except clauses
OrderError(outcome) ==
    IF outcome = "SellingApiException" THEN "error_sp_api" ELSE "error_unexpected"

\* get_order_details up to the construction of the Orders client
GetOrderDetails ==
    /\ order_pc = "start"
    /\ LET t == get_refresh_token_for_region(regional_tokens, order_region)
       IN /\ refresh_token' = t.token
          /\ \E o \in ClientOutcomes(t.token) :
                IF o = "client"
                THEN /\ order_pc' = "get_order"
                     /\ order_reported' = order_reported \cup t.reported
                     /\ order_result' = order_result
                ELSE /\ order_pc' = "done"
                     /\ order_reported' =
                           order_reported \cup t.reported \cup {OrderError(o)}
                     /\ order_result' = "None"
    /\ UNCHANGED <<regional_tokens, order_region, order_items, priced_items,
                   pricing_offers, listing_prices, order_api_calls>>
    /\ UNCHANGED <<driverVars, tokenVars, finVars, convertVars, decodeVars, fxVars, fetchVars, dateVars, cacheVars>>

\* orders_client.get_order(order_id)
GetOrder ==
    /\ order_pc = "get_order"
    /\ order_api_calls' = Append(order_api_calls, "get_order")
    /\ \E o \in ApiOutcomes(refresh_token) :
          IF o = "payload"
          THEN /\ order_pc' = "get_order_items"
               /\ UNCHANGED <<order_reported, order_result>>
          ELSE /\ order_pc' = "done"
               /\ order_reported' = order_reported \cup {OrderError(o)}
               /\ order_result' = "None"
    /\ UNCHANGED <<regional_tokens, order_region, refresh_token, order_items,
                   priced_items, pricing_offers, listing_prices>>
    /\ UNCHANGED <<driverVars, tokenVars, finVars, convertVars, decodeVars, fxVars, fetchVars, dateVars, cacheVars>>

\* orders_client.get_order_items(order_id); an order without items is
\* returned as it is, one with items goes on to get_product_details_for_order,
\* which looks the regional token up once more
GetOrderItems ==
    /\ order_pc = "get_order_items"
    /\ order_api_calls' = Append(order_api_calls, "get_order_items")
    /\ \E o \in ApiOutcomes(refresh_token) :
          IF o = "payload"
          THEN \E n \in 0..MaxOrderItems :
                  /\ order_items' = n
                  /\ IF n = 0
                     THEN /\ order_pc' = "done"
                          /\ order_result' = "order"
                          /\ order_reported' = order_reported
                     ELSE /\ order_pc' = "catalog"
                          /\ order_result' = order_result
                          /\ order_reported' = order_reported \cup
                                get_refresh_token_for_region(regional_tokens,
                                                             order_region).reported
          ELSE /\ order_pc' = "done"
               /\ order_reported' = order_reported \cup {OrderError(o)}
               /\ order_result' = "None"
               /\ order_items' = order_items
    /\ UNCHANGED <<regional_tokens, order_region, refresh_token, priced_items,
                   pricing_offers, listing_prices>>
    /\ UNCHANGED <<driverVars, tokenVars, finVars, convertVars, decodeVars, fxVars, fetchVars, dateVars, cacheVars>>

\* get_product_details_for_order, the catalog request: both kinds of failure
\* are reported and the function goes on to the pricing requests
FetchCatalog ==
    /\ order_pc = "catalog"
    /\ order_api_calls' = Append(order_api_calls, "catalog_items")
    /\ \E o \in ApiOutcomes(refresh_token) :
          order_reported' = order_reported \cup
             (IF o = "payload" THEN {}
              ELSE IF o = "SellingApiException" THEN {"warning_catalog"}
              ELSE {"error_catalog"})
    /\ order_pc' = "pricing"
    /\ priced_items' = 0
    /\ UNCHANGED <<regional_tokens, order_region, refresh_token, order_items,
                   pricing_offers, listing_prices, order_result>>
    /\ UNCHANGED <<driverVars, tokenVars, finVars, convertVars, decodeVars, fxVars, fetchVars, dateVars, cacheVars>>

\* the 'Offers' field of a pricing response's payload: missing, an empty
\* list, a list whose first offer has no ListingPrice, or one that has
OffersFields == {"absent", "empty", "offer_without_price", "offer"}

\* lines 236-238: .get('Offers', [{}])[0] raises IndexError on an empty list
first_offer(offers) ==
    IF offers = "empty" THEN [raised |-> "IndexError", offer |-> "none"]
    ELSE IF offers = "absent" THEN [raised |-> "none", offer |-> "offer_without_price"]
    ELSE [raised |-> "none", offer |-> offers]

\* line 239: offer.get('ListingPrice', {}).get('Amount')
listing_price(offer) == IF offer = "offer" THEN "amount" ELSE "None"

\* get_product_details_for_order, one pricing request: an SP-API failure ends
\* the loop with a warning and the items are returned; any other exception
\* leaves the function and reaches get_order_details' except clause
FetchPricing ==
    /\ order_pc = "pricing"
    /\ priced_items < order_items
    /\ order_api_calls' = Append(order_api_calls, "pricing")
    /\ \E o \in ApiOutcomes(refresh_token) :
          CASE o = "payload" ->
                  \E offers \in OffersFields :
                     /\ pricing_offers' = offers
                     /\ IF first_offer(offers).raised = "none"
                        THEN /\ priced_items' = priced_items + 1
                             /\ listing_prices' =
                                   Append(listing_prices,
                                          listing_price(first_offer(offers).offer))
                             /\ order_reported' = order_reported
                             /\ IF priced_items + 1 = order_items
                                THEN order_pc' = "done" /\ order_result' = "order_and_items"
                                ELSE UNCHANGED <<order_pc, order_result>>
                        ELSE /\ UNCHANGED <<priced_items, listing_prices>>
                             /\ order_reported' = order_reported \cup {"error_unexpected"}
                             /\ order_pc' = "done"
                             /\ order_result' = "None"
            [] o = "SellingApiException" ->
                  /\ UNCHANGED <<priced_items, listing_prices>>
                  /\ pricing_offers' = "raised"
                  /\ order_reported' = order_reported \cup {"warning_pricing"}
                  /\ order_pc' = "done"
                  /\ order_result' = "order_and_items"
            [] OTHER ->
                  /\ UNCHANGED <<priced_items, listing_prices>>
                  /\ pricing_offers' = "raised"
                  /\ order_reported' = order_reported \cup {OrderError(o)}
                  /\ order_pc' = "done"
                  /\ order_result' = "None"
    /\ UNCHANGED <<regional_tokens, order_region, refresh_token, order_items>>
    /\ UNCHANGED <<driverVars, tokenVars, finVars, convertVars, decodeVars, fxVars, fetchVars, dateVars, cacheVars>>

(***************************************************************************)
(* The date chunks of fetch_financial_data_in_chunks (Dashboard.py).  Dates *)
(* are day numbers; an instant is counted in half days, so that day d       *)
(* starts at instant 2 * d and its noon is instant 2 * d + 1.               *)
(***************************************************************************)

MaxRangeDays == 61

\* the first days of the ranges selected
StartDates == {0, 3}

\* line 241: timedelta(days=29)
CHUNK_DAYS_AFTER_START == 29

\* pd.to_datetime(date): the midnight that starts the day
to_datetime(date) == 2 * date

\* lines 241-243: chunk_end_date
chunk_end_date_uncapped(current, last) == current + CHUNK_DAYS_AFTER_START
chunk_end_date(current, last) ==
    IF current + CHUNK_DAYS_AFTER_START > last THEN last
    ELSE current + CHUNK_DAYS_AFTER_START

\* one fetch_financial_data_chunk call: its arguments and the window of its
\* list_financial_events requests (lines 205-206)
ChunkCall(region, first, last) ==
    [region |-> region, start_date |-> first, end_date |-> last,
     PostedAfter |-> to_datetime(first), PostedBefore |-> to_datetime(last)]

\* one iteration of the while loop (lines 240-252): the chunk is fetched, its
\* table kept unless it is None or empty, and current_start_date advanced;
\* when the region's loop ends the next region starts, or the function returns
FetchDateChunk ==
    /\ date_pc = "chunk"
    /\ current_start_date <= end_date
    /\ LET chunk_end == chunk_end_date(current_start_date, end_date)
           next_start == chunk_end + 1
       IN  /\ windows' = Append(windows, ChunkCall(REGIONS_TO_PROCESS[date_region_i],
                                                   current_start_date, chunk_end))
           /\ \E kept \in BOOLEAN :
                 kept_chunks' = IF kept THEN kept_chunks + 1 ELSE kept_chunks
           /\ slept' = FALSE
           /\ IF next_start <= end_date
              THEN /\ date_pc' = "pause"
                   /\ current_start_date' = next_start
                   /\ date_region_i' = date_region_i
              ELSE IF date_region_i < Len(REGIONS_TO_PROCESS)
              THEN /\ date_pc' = "chunk"
                   /\ current_start_date' = start_date
                   /\ date_region_i' = date_region_i + 1
              ELSE /\ date_pc' = "returned"
                   /\ current_start_date' = next_start
                   /\ date_region_i' = date_region_i
    /\ UNCHANGED <<start_date, end_date>>
    /\ UNCHANGED <<driverVars, tokenVars, finVars, convertVars, decodeVars, fxVars, fetchVars, orderVars, cacheVars>>

\* lines 254-256: the pause before the next chunk of the region
PauseBetweenChunks ==
    /\ date_pc = "pause"
    /\ slept' = TRUE
    /\ date_pc' = "chunk"
    /\ UNCHANGED <<start_date, end_date, date_region_i, current_start_date, windows,
                   kept_chunks>>
    /\ UNCHANGED <<driverVars, tokenVars, finVars, convertVars, decodeVars, fxVars, fetchVars, orderVars, cacheVars>>

(***************************************************************************)
(* st.cache_data around get_amazon_report (streamlit_app.py,                *)
(* Listing_report.py)                                                      *)
(***************************************************************************)

MaxCalls == 3

\* the arguments of get_amazon_report: marketplace id and report type; the
\* credentials are loaded once and are the same in every call
CacheArgs == {"ATVPDKIKX0DER", "A1F83G8C2ARO7P"}
                \X {"GET_FLAT_FILE_OPEN_LISTINGS_DATA", "GET_MERCHANT_LISTINGS_ALL_DATA"}

\* what a run of the function body does: the value returned and the number
\* of create_report requests sent (none when the marketplace is unsupported
\* or the regional refresh token is missing)
RunOutcomes ==
    {[value |-> "None", requests |-> 0]}
    \cup [value : {"None", "empty_table", "table"}, requests : {1}]

\* the decorator keeps the value a run returned, whatever it is
cache_store(cache, args, value) == [cache EXCEPT ![args] = value]

\* get_amazon_report is called (the Generate Report button): the decorator
\* answers from its cache when it holds a value for the arguments, else the
\* body runs and its return value is cached
GenerateReport ==
    /\ cache_calls < MaxCalls
    /\ cache_calls' = cache_calls + 1
    /\ \E args \in CacheArgs :
          /\ cache_args' = args
          /\ IF report_cache[args] # "missing"
             THEN /\ cache_hit' = TRUE
                  /\ cache_result' = [value |-> report_cache[args], requests |-> 0]
                  /\ UNCHANGED <<report_cache, service_requests>>
             ELSE /\ cache_hit' = FALSE
                  /\ \E o \in RunOutcomes :
                        /\ cache_result' = o
                        /\ service_requests' = service_requests + o.requests
                        /\ report_cache' = cache_store(report_cache, args, o.value)
    /\ UNCHANGED <<driverVars, tokenVars, finVars, convertVars, decodeVars, fxVars, fetchVars, orderVars, dateVars>>

(***************************************************************************)
(* Initial states and specifications                                       *)
(***************************************************************************)
InitDriverIdle ==
    /\ driver = "streamlit_app"
    /\ pc = "done"
    /\ report_id = "unset"
    /\ attempt = 0
    /\ get_report_response = [processingStatus |-> "absent", reportDocumentId |-> "absent"]
    /\ processing_status = "unset"
    /\ report_document_id = "unset"
    /\ create_report_calls = 0
    /\ get_report_calls = 0
    /\ document_requests = <<>>
    /\ report_text = "unset"
    /\ result = "running"
    /\ reported = "none"
    /\ reported_status = "none"

InitFinIdle ==
    /\ financial_events_payload = Payload(FALSE, FALSE, <<>>)
    /\ fin_pc = "processed"
    /\ page_df = EmptyDataFrame

InitConvertIdle ==
    /\ financial_df = EmptyDataFrame
    /\ rates = <<>>
    /\ source_df = EmptyDataFrame
    /\ conversions = 0

InitTokenIdleOnly ==
    /\ access_token_info = [k \in Keys |-> NoEntry]
    /\ now = 0
    /\ credentials = {}
    /\ last_call = NoCall

InitDecodeIdle ==
    /\ decode_driver = "streamlit_app"
    /\ compression_algorithm = "None"
    /\ report_content_bytes = [format |-> "plain", charset |-> "utf-8", text |-> ""]
    /\ decode_pc = "decoded"
    /\ decoded = Decoded("none", "")

InitFxIdle ==
    /\ fx_app = "Dashboard"
    /\ fx_currencies = <<>>
    /\ fx_pc = "done"
    /\ fx_i = 0
    /\ fx_rates = <<>>
    /\ fx_requests = 0
    /\ fx_fetched = <<>>
    /\ fx_failed = {}

InitFetchIdle ==
    /\ env_credentials = {}
    /\ n_chunks = 0
    /\ fetch_pc = "done"
    /\ region_i = 1
    /\ chunk_i = 1
    /\ pages = 0
    /\ next_token = "None"
    /\ request_token = "unset"
    /\ all_events_df = <<>>
    /\ all_data_df = <<>>
    /\ attempted_chunks = <<>>
    /\ last_return = NoReturn
    /\ succeeded_chunks = {}
    /\ failed_chunks = {}
    /\ requested_regions = {}
    /\ session_financial_df = SessionUnset
    /\ ui_state = "none"

InitOrderIdle ==
    /\ regional_tokens = {}
    /\ order_region = "na"
    /\ order_pc = "idle"
    /\ refresh_token = "unset"
    /\ order_items = 0
    /\ priced_items = 0
    /\ pricing_offers = "unset"
    /\ listing_prices = <<>>
    /\ order_api_calls = <<>>
    /\ order_reported = {}
    /\ order_result = "running"

InitDateIdle ==
    /\ start_date = 0
    /\ end_date = 0
    /\ date_region_i = 1
    /\ current_start_date = 0
    /\ date_pc = "idle"
    /\ windows = <<>>
    /\ slept = FALSE
    /\ kept_chunks = 0

InitCacheIdle ==
    /\ report_cache = <<>>
    /\ cache_calls = 0
    /\ cache_args = <<>>
    /\ cache_result = [value |-> "unset", requests |-> 0]
    /\ cache_hit = FALSE
    /\ service_requests = 0

\* the four components above and the two just before, none of them running
InitBaseIdle ==
    /\ InitDriverIdle
    /\ InitTokenIdleOnly
    /\ InitFinIdle
    /\ InitConvertIdle
    /\ InitDateIdle
    /\ InitCacheIdle

\* the later components but one, none of them running
InitOthersIdleBut(component) ==
    /\ InitDecodeIdle
    /\ InitFxIdle
    /\ InitFetchIdle
    /\ InitOrderIdle
    /\ component # "dates" => InitDateIdle
    /\ component # "cache" => InitCacheIdle

\* the components below the currency normalizer, none of them running
InitOthersIdle ==
    /\ InitDecodeIdle
    /\ InitFxIdle
    /\ InitFetchIdle
    /\ InitOrderIdle
    /\ InitDateIdle
    /\ InitCacheIdle

InitTokenIdle ==
    /\ InitOthersIdle
    /\ InitFinIdle
    /\ InitConvertIdle
    /\ InitTokenIdleOnly

\* the module-level cache starts empty; the environment configures the
\* credentials of some of the keys
InitToken ==
    /\ InitOthersIdle
    /\ InitDriverIdle
    /\ InitFinIdle
    /\ InitConvertIdle
    /\ access_token_info = [k \in Keys |-> NoEntry]
    /\ now = 0
    /\ credentials \in SUBSET Keys
    /\ last_call = NoCall

NextToken == (\E k \in Keys : GetAccessToken(k)) \/ Tick

SpecToken == InitToken /\ [][NextToken]_vars

\* the payloads process_financial_events is applied to: one event with one
\* item of any content, payloads of up to MaxEvents events of up to MaxItems
\* sample items, and payloads without FinancialEvents or ShipmentEventList
InitFin ==
    /\ InitOthersIdle
    /\ InitDriverIdle
    /\ InitTokenIdleOnly
    /\ InitConvertIdle
    /\ \/ \E item \in Items : financial_events_payload = SingleItemPayload(item)
       \/ \E n \in 0..MaxEvents : \E events \in [1..n -> SampleEvents(MaxItems)] :
             financial_events_payload = Payload(TRUE, TRUE, events)
       \/ financial_events_payload \in KeylessPayloads
    /\ fin_pc = "input"
    /\ page_df = EmptyDataFrame

NextFin == ProcessFinancialEvents

SpecFin == InitFin /\ [][NextFin]_vars

InitConvert ==
    /\ InitOthersIdle
    /\ InitDriverIdle
    /\ InitTokenIdleOnly
    /\ InitFinIdle
    /\ financial_df \in ConvertInputs
    /\ rates = <<>>
    /\ source_df = financial_df
    /\ conversions = 0

NextConvert == ConvertDfToInr

SpecConvert == InitConvert /\ [][NextConvert]_vars

InitDriver ==
    /\ InitTokenIdle
    /\ driver \in Drivers
    /\ pc = "create_report"
    /\ report_id = "unset"
    /\ attempt = 0
    /\ get_report_response = [processingStatus |-> "absent", reportDocumentId |-> "absent"]
    /\ processing_status = "unset"
    /\ report_document_id = "unset"
    /\ create_report_calls = 0
    /\ get_report_calls = 0
    /\ document_requests = <<>>
    /\ report_text = "unset"
    /\ result = "running"
    /\ reported = "none"
    /\ reported_status = "none"

NextDriver == CreateReport \/ Poll \/ GetReportDocument \/ Download

SpecDriver == InitDriver /\ [][NextDriver]_vars

\* a document has been downloaded: any bytes under any compression indicator
InitDecode ==
    /\ InitBaseIdle
    /\ InitOrderIdle
    /\ InitFxIdle
    /\ InitFetchIdle
    /\ decode_driver \in Drivers
    /\ compression_algorithm \in CompressionAlgorithms
    /\ report_content_bytes \in ContentBytes
    /\ decode_pc = "downloaded"
    /\ decoded = Decoded("none", "unset")

NextDecode == Decode

SpecDecode == InitDecode /\ [][NextDecode]_vars

\* a document of bytes was downloaded under some compression indicator
InitDecodeBytes ==
    /\ InitBaseIdle
    /\ InitOrderIdle
    /\ InitFxIdle
    /\ InitFetchIdle
    /\ decode_driver \in Drivers
    /\ compression_algorithm \in CompressionAlgorithms
    /\ report_content_bytes \in DocumentBytes
    /\ decode_pc = "downloaded"
    /\ decoded = [raised |-> "none", text |-> <<>>]

NextDecodeBytes == DecodeBytes

SpecDecodeBytes == InitDecodeBytes /\ [][NextDecodeBytes]_vars

\* a rate table is requested for some distinct currencies
InitFx ==
    /\ InitBaseIdle
    /\ InitOrderIdle
    /\ InitDecodeIdle
    /\ InitFetchIdle
    /\ fx_app \in FxApps
    /\ fx_currencies \in DistinctSeqs(IF fx_app = "Dashboard" THEN DashboardCurrencies
                                      ELSE SalesCurrencies, MaxCurrencies)
    /\ fx_pc = "fetch"
    /\ fx_i = 0
    /\ fx_rates = <<>>
    /\ fx_requests = 0
    /\ fx_fetched = <<>>
    /\ fx_failed = {}

NextFx == DashboardFetchRate \/ SalesFetchRates

SpecFx == InitFx /\ [][NextFx]_vars

\* the button is pressed with a valid date range of some number of chunks,
\* the environment holding the credentials of some of the regions
InitFetch ==
    /\ InitBaseIdle
    /\ InitOrderIdle
    /\ InitDecodeIdle
    /\ InitFxIdle
    /\ env_credentials \in SUBSET Range(REGIONS_TO_PROCESS)
    /\ n_chunks \in 1..MaxChunks
    /\ fetch_pc = "chunk"
    /\ region_i = 1
    /\ chunk_i = 1
    /\ pages = 0
    /\ next_token = "None"
    /\ request_token = "unset"
    /\ all_events_df = <<>>
    /\ all_data_df = <<>>
    /\ attempted_chunks = <<>>
    /\ last_return = NoReturn
    /\ succeeded_chunks = {}
    /\ failed_chunks = {}
    /\ requested_regions = {}
    /\ session_financial_df = SessionUnset
    /\ ui_state = "none"

NextFetch == FetchChunk \/ FetchPage \/ MainDashboard

SpecFetch == InitFetch /\ [][NextFetch]_vars

\* a date range of one chunk: fetch_financial_data_chunk is called once for
\* each region
InitChunkPages == InitFetch /\ n_chunks = 1

\* the fetch runs on: every request is answered and every call returns
SpecChunkPages == InitChunkPages /\ [][NextFetch]_vars /\ WF_vars(NextFetch)

\* an order of a marketplace of some region is looked up, the environment
\* holding the refresh tokens of some of the regions
InitOrder ==
    /\ InitBaseIdle
    /\ InitDecodeIdle
    /\ InitFxIdle
    /\ InitFetchIdle
    /\ regional_tokens \in SUBSET OrderRegions
    /\ order_region \in OrderRegions
    /\ order_pc = "start"
    /\ refresh_token = "unset"
    /\ order_items = 0
    /\ priced_items = 0
    /\ pricing_offers = "unset"
    /\ listing_prices = <<>>
    /\ order_api_calls = <<>>
    /\ order_reported = {}
    /\ order_result = "running"

NextOrder == GetOrderDetails \/ GetOrder \/ GetOrderItems \/ FetchCatalog \/ FetchPricing

SpecOrder == InitOrder /\ [][NextOrder]_vars

\* the app has started: nothing is cached and no report was requested
InitCache ==
    /\ InitDriverIdle
    /\ InitTokenIdleOnly
    /\ InitFinIdle
    /\ InitConvertIdle
    /\ InitOthersIdleBut("cache")
    /\ report_cache = [a \in CacheArgs |-> "missing"]
    /\ cache_calls = 0
    /\ cache_args \in CacheArgs
    /\ cache_result = [value |-> "unset", requests |-> 0]
    /\ cache_hit = FALSE
    /\ service_requests = 0

NextCache == GenerateReport

SpecCache == InitCache /\ [][NextCache]_vars

\* the button is pressed with a range start_date <= end_date (line 400)
InitChunkDates ==
    /\ InitDriverIdle
    /\ InitTokenIdleOnly
    /\ InitFinIdle
    /\ InitConvertIdle
    /\ InitOthersIdleBut("dates")
    /\ start_date \in StartDates
    /\ end_date \in start_date..(start_date + MaxRangeDays)
    /\ date_region_i = 1
    /\ current_start_date = start_date
    /\ date_pc = "chunk"
    /\ windows = <<>>
    /\ slept = FALSE
    /\ kept_chunks = 0

NextChunkDates == FetchDateChunk \/ PauseBetweenChunks

\* every chunk call returns and every pause ends
SpecChunkDates == InitChunkDates /\ [][NextChunkDates]_vars /\ WF_vars(NextChunkDates)

(***************************************************************************)
(* Claims about the report job driver                                      *)
(***************************************************************************)
\* the driver function returned the null failure result: get_amazon_report
\* returned None, download_and_process_report returned None
NullResult ==
    IF driver = "sales_order4" THEN report_text = "None" ELSE result = "None"

\* the last poll returned a status (no exception, no missing key)
LastPollReturned ==
    /\ get_report_calls > 0
    /\ reported \notin {"sp_api", "unexpected", "request"}

\* C1: once a poll has returned DONE no further status request is issued,
\* and every document request made (and the reference the driver carries on
\* with) is the reference of that same DONE response.
C1_DoneStopsPolling ==
    /\ [](\A i \in DOMAIN document_requests :
            /\ get_report_response.processingStatus = "DONE"
            /\ document_requests[i] = Get(get_report_response.reportDocumentId))
    /\ []((pc \in {"get_report_document", "download"}) =>
            /\ get_report_response.processingStatus = "DONE"
            /\ report_document_id = Get(get_report_response.reportDocumentId))
    /\ [][get_report_response.processingStatus = "DONE" =>
            /\ get_report_calls' = get_report_calls
            /\ get_report_response' = get_report_response]_vars

\* C1 witness: in-progress, in-progress, DONE: three polls, the document of the
\* DONE response requested, the table returned
C1_Witness ==
    /\ get_report_calls = 3
    /\ get_report_response = [processingStatus |-> "DONE", reportDocumentId |-> "doc2"]
    /\ document_requests = <<"doc2">>
    /\ pc = "done"
    /\ result = "table"

\* C2: the number of status requests never exceeds the driver's attempt
\* ceiling, and a run in which every poll returned a non-terminal status ends
\* after exactly that many requests with the null result, a timeout-kind
\* message and no document request.
C2_TimeoutAtCeiling ==
    /\ get_report_calls <= PollCeiling(driver)
    /\ get_report_calls = attempt
    /\ (/\ pc = "done"
        /\ LastPollReturned
        /\ get_report_response.processingStatus \notin TerminalStatuses)
       => /\ get_report_calls = PollCeiling(driver)
          /\ NullResult
          /\ document_requests = <<>>
          /\ IF driver = "sales_order4"
             THEN reported = "status" /\ reported_status \notin TerminalStatuses
             ELSE reported = "timeout"

\* C2 witness: a run of only non-terminal statuses has ended at the ceiling
C2_Witness ==
    /\ pc = "done"
    /\ LastPollReturned
    /\ get_report_response.processingStatus = "IN_PROGRESS"
    /\ get_report_calls = PollCeiling(driver)
    /\ driver = "Listing_report"

\* C3: a FATAL or CANCELLED poll ends the driver with that status reported
\* and the null result; afterwards there is no status poll, no document
\* request and no second submission.
C3_FatalCancelledFails ==
    /\ [](get_report_response.processingStatus \in {"FATAL", "CANCELLED"} =>
            /\ pc = "done"
            /\ NullResult
            /\ reported = "status"
            /\ reported_status = get_report_response.processingStatus
            /\ document_requests = <<>>
            /\ create_report_calls = 1)
    /\ [][get_report_response.processingStatus \in {"FATAL", "CANCELLED"} =>
            /\ get_report_calls' = get_report_calls
            /\ create_report_calls' = create_report_calls
            /\ document_requests' = document_requests]_vars

\* C3 witness: the second poll of sales_order4 returned CANCELLED
C3_Witness ==
    /\ driver = "sales_order4"
    /\ get_report_calls = 2
    /\ get_report_response.processingStatus = "CANCELLED"
    /\ pc = "done"
    /\ report_text = "None"

\* C4 (as claimed): when the create_report response carries no job id the
\* driver performs no status poll and no document request and ends without
\* a table.
C4_NoJobIdFailsImmediately ==
    report_id \in {"absent", "None"} =>
        /\ get_report_calls = 0
        /\ document_requests = <<>>
        /\ pc \in {"done", "poll"}
        /\ pc = "done" => /\ result \in {"None", "empty_table"}
                          /\ reported \in {"submission", "unexpected"}

\* C24: a poll that returned anything but DONE, FATAL or CANCELLED (IN_QUEUE,
\* IN_PROGRESS, an unrecognized string, or in streamlit_app and Listing_report
\* a response without the status) is taken as still running: below the
\* attempt ceiling the driver has reported nothing, has no result yet and its
\* next step is another poll; at the ceiling it stops.  (In sales_order4 a
\* response without the status key raises KeyError and is no returned status.)
C24_NonTerminalKeepsPolling ==
    (/\ LastPollReturned
     /\ get_report_response.processingStatus \notin TerminalStatuses)
    => IF get_report_calls < PollCeiling(driver)
       THEN /\ pc = "poll"
            /\ reported = "none"
            /\ result = "running"
            /\ report_text = "unset"
            /\ document_requests = <<>>
       ELSE pc = "done"

\* C24 witness: Listing_report polled twice, the second response had no
\* status, and the driver is about to poll again
C24_Witness ==
    /\ driver = "Listing_report"
    /\ get_report_calls = 2
    /\ get_report_response.processingStatus = "absent"
    /\ pc = "poll"
    /\ reported = "none"

\* C27: a document is requested only for a job whose poll returned DONE, and
\* never with a missing (None) document reference.
C27_DocumentOnlyWithReference ==
    \A i \in DOMAIN document_requests :
       /\ get_report_response.processingStatus = "DONE"
       /\ Truthy(document_requests[i])

(***************************************************************************)
(* Claims about the token cache                                            *)
(***************************************************************************)
\* this step is a get_access_token call for key k
IsCall(k) == last_call'.seq # last_call.seq /\ last_call'.key = k

\* this step is a call for the key of the latest call, with no time passed
\* since that call returned
IsImmediateCall == now = last_call.at /\ IsCall(last_call.key)

\* C5: a call that finds a token cached for its key, with now before the
\* stored expiry, returns that token, issues no token request and leaves the
\* cache and the clock as they were.
C5_CachedTokenReturned ==
    [][\A k \in Keys :
         (/\ IsCall(k)
          /\ access_token_info[k].present
          /\ access_token_info[k].token \in Tokens
          /\ \E x \in access_token_info[k].expires_at : now < x)
         => /\ last_call'.token = access_token_info[k].token
            /\ last_call'.requests = 0
            /\ ~last_call'.raised
            /\ access_token_info' = access_token_info
            /\ now' = now]_vars

\* C5 witness: 30 seconds after a refresh a call was served from the cache
C5_Witness ==
    /\ last_call.outcome = "cached"
    /\ last_call.token = "t2"
    /\ last_call.at = 30
    /\ last_call.requests = 0

\* C6 (as claimed): whenever a call returns a token, the instant of the return
\* is before the token's stored expiry, i.e. its expiry minus the margin.
C6_NeverReturnedPastMargin ==
    last_call.token # "None" =>
        /\ last_call.expires_at # {}
        /\ \A x \in last_call.expires_at : last_call.at < x

\* C6 (amended): a token served from the cache is returned before its stored
\* expiry; a token just refreshed is returned at the refresh instant, and its
\* stored expiry is that instant plus expires_in minus the margin.
C6_CachedNeverPastMargin ==
    last_call.token # "None" =>
        /\ last_call.expires_at # {}
        /\ \A x \in last_call.expires_at :
              /\ last_call.requests = 0 => last_call.at < x
              /\ last_call.requests = 1 =>
                    x = last_call.at + last_call.expires_in - MARGIN_SECONDS

\* C6 witness: a refresh reported expires_in equal to the margin and its token
\* was returned at the very instant of its stored expiry
C6_Witness ==
    /\ last_call.outcome = "refreshed"
    /\ last_call.expires_in = MARGIN_SECONDS
    /\ last_call.at \in last_call.expires_at

\* C7 (as claimed): the call that directly follows a successful refresh for
\* the same key issues no token request.
C7_NoSecondRequest ==
    [][(last_call.outcome = "refreshed" /\ IsImmediateCall)
         => last_call'.requests = 0]_vars

\* C7 (amended): the call that directly follows a successful refresh for the
\* same key issues no token request when the refresh reported an expires_in
\* larger than the margin.
C7_NoSecondRequestAboveMargin ==
    [][(/\ last_call.outcome = "refreshed"
        /\ last_call.expires_in > MARGIN_SECONDS
        /\ IsImmediateCall)
         => /\ last_call'.requests = 0
            /\ last_call'.token = last_call.token]_vars

\* C7 witness: a call at the instant of a refresh (time 0, no delay) was
\* served from the cache
C7_Witness ==
    /\ last_call.outcome = "cached"
    /\ last_call.at = 0
    /\ last_call.token = "t1"

\* C8 (as claimed): a call that has to refresh issues exactly one token
\* request, and when that request fails the call returns no token and raises
\* nothing, so that get_product_details ends with its error result.
C8_FailedRefreshReturnsNone ==
    /\ last_call.requests <= 1
    /\ last_call.outcome \in {"refreshed", "failed", "raised"} => last_call.requests = 1
    /\ (last_call.requests = 1 /\ last_call.outcome # "refreshed")
       => /\ last_call.token = "None"
          /\ ~last_call.raised
          /\ last_call.dependent = "error"

\* C23 (as claimed): a call that is served from the cache, finds the
\* credentials missing or fails to refresh leaves the whole cache, key set
\* included, as it was, and a successful refresh changes the entry of its own
\* key only.
C23_CacheMutatedOnlyByRefresh ==
    [][\A k \in Keys :
         IsCall(k) =>
            /\ last_call'.outcome # "refreshed" => access_token_info' = access_token_info
            /\ \A j \in Keys \ {k} : access_token_info'[j] = access_token_info[j]]_vars

\* C23 (amended): a call that is served from the cache, finds the credentials
\* missing or fails to refresh changes no stored token and no stored expiry;
\* the only change it makes is to create the empty entry (no token, no
\* expiry) of its own key when the cache did not have that key.  A successful
\* refresh changes the entry of its own key only.
C23_TokensMutatedOnlyByRefresh ==
    [][\A k \in Keys :
         IsCall(k) =>
            /\ last_call'.outcome # "refreshed" =>
                  \/ access_token_info'[k] = access_token_info[k]
                  \/ /\ ~access_token_info[k].present
                     /\ access_token_info'[k] =
                           [present |-> TRUE, token |-> "None", expires_at |-> {}]
            /\ \A j \in Keys \ {k} : access_token_info'[j] = access_token_info[j]]_vars

\* C23 witness: a refresh failed for a key the cache did not have, which left
\* the empty entry of that key, while the token of the other key stayed cached
C23_Witness ==
    /\ last_call.outcome = "failed"
    /\ access_token_info[last_call.key] =
          [present |-> TRUE, token |-> "None", expires_at |-> {}]
    /\ \E j \in Keys \ {last_call.key} : access_token_info[j].token \in Tokens

(***************************************************************************)
(* Claims about process_financial_events and convert_df_to_inr             *)
(***************************************************************************)
\* the sum of f over the finite set S
RECURSIVE SumOver(_, _)
SumOver(f, S) ==
    IF S = {} THEN 0
    ELSE LET x == CHOOSE x \in S : TRUE IN f[x] + SumOver(f, S \ {x})

\* the amount an entry declares, 0 when it declares none
DeclaredAmount(a) == IF a.present /\ a.hasAmount THEN a.CurrencyAmount ELSE 0

\* Principal plus ShippingCharge amounts of an item, every other type ignored
ExpectedRevenue(item) ==
    SumOver([i \in DOMAIN item.ItemChargeList |->
               IF item.ItemChargeList[i].ChargeType \in {"Principal", "ShippingCharge"}
               THEN DeclaredAmount(item.ItemChargeList[i].ChargeAmount) ELSE 0],
            DOMAIN item.ItemChargeList)

\* the raw sum of the fee amounts of an item
ExpectedFees(item) ==
    SumOver([i \in DOMAIN item.ItemFeeList |->
               DeclaredAmount(item.ItemFeeList[i].FeeAmount)],
            DOMAIN item.ItemFeeList)

\* the items of the payload, event by event
RECURSIVE ItemsOf(_)
ItemsOf(events) ==
    IF events = <<>> THEN <<>>
    ELSE Head(events).ShipmentItemList \o ItemsOf(Tail(events))

\* C9: the row of every shipment item has Total Revenue = Principal amounts +
\* ShippingCharge amounts (other charge types ignored), Amazon Fees = the raw
\* sum of the fee amounts, and Net Proceeds = Total Revenue + Amazon Fees.
C9_ItemTotals ==
    fin_pc = "processed" =>
        LET items == ItemsOf(financial_events_payload.ShipmentEventList)
        IN  /\ Len(page_df.rows) = Len(items)
            /\ \A j \in DOMAIN items :
                  /\ page_df.rows[j]["Total Revenue"] = ExpectedRevenue(items[j])
                  /\ page_df.rows[j]["Amazon Fees"] = ExpectedFees(items[j])
                  /\ page_df.rows[j]["Net Proceeds"] =
                        ExpectedRevenue(items[j]) + ExpectedFees(items[j])

\* C9 witness: Principal 100, ShippingCharge 10 and a fee of -15 gave
\* Total Revenue 110 and Net Proceeds 95
C9_Witness ==
    /\ fin_pc = "processed"
    /\ Len(financial_events_payload.ShipmentEventList) = 1
    /\ Len(financial_events_payload.ShipmentEventList[1].ShipmentItemList) = 1
    /\ LET item == financial_events_payload.ShipmentEventList[1].ShipmentItemList[1]
       IN  /\ Len(item.ItemChargeList) = 2
           /\ item.ItemChargeList[1].ChargeType = "Principal"
           /\ item.ItemChargeList[1].ChargeAmount.CurrencyAmount = 100
           /\ item.ItemChargeList[2].ChargeType = "ShippingCharge"
           /\ item.ItemChargeList[2].ChargeAmount.CurrencyAmount = 10
           /\ Len(item.ItemFeeList) = 1
           /\ item.ItemFeeList[1].FeeAmount.CurrencyAmount = -15
    /\ page_df.rows[1]["Total Revenue"] = 110
    /\ page_df.rows[1]["Amazon Fees"] = -15
    /\ page_df.rows[1]["Net Proceeds"] = 95

\* the payload holds no shipment event: a key is missing or the list is empty
NoShipmentEvents(p) ==
    \/ ~p.hasFinancialEvents
    \/ ~p.hasShipmentEventList
    \/ p.ShipmentEventList = <<>>

\* C13: process_financial_events applied to a payload with zero shipment
\* events (ShipmentEventList empty or missing, or FinancialEvents missing)
\* returns a table with no rows (pd.DataFrame()); it returns, so nothing was
\* raised.
C13_NoEventsZeroRows ==
    (fin_pc = "processed" /\ NoShipmentEvents(financial_events_payload))
        => /\ page_df.rows = <<>>
           /\ page_df.columns = {}

\* C13 witness: a payload without the FinancialEvents key was processed
C13_Witness ==
    /\ fin_pc = "processed"
    /\ ~financial_events_payload.hasFinancialEvents
    /\ page_df.rows = <<>>

\* the (order id, sku) of every item of the payload, event by event
RECURSIVE ItemKeysOf(_)
ItemKeysOf(events) ==
    IF events = <<>> THEN <<>>
    ELSE [i \in DOMAIN Head(events).ShipmentItemList |->
            <<Head(events).AmazonOrderId, Head(events).ShipmentItemList[i].SellerSKU>>]
         \o ItemKeysOf(Tail(events))

\* C14: process_financial_events emits exactly one row per shipment item, in
\* event order then item order, also for the items without charges or fees.
C14_OneRowPerItem ==
    fin_pc = "processed" =>
        LET keys == ItemKeysOf(IF NoShipmentEvents(financial_events_payload) THEN <<>>
                               ELSE financial_events_payload.ShipmentEventList)
        IN  /\ Len(page_df.rows) = Len(keys)
            /\ \A j \in DOMAIN keys :
                  <<page_df.rows[j]["amazon-order-id"], page_df.rows[j]["sku"]>> = keys[j]

\* C14 witness: two events, the first with an item without charges and fees
\* followed by an item with both, were flattened into three or more rows
C14_Witness ==
    /\ fin_pc = "processed"
    /\ Len(financial_events_payload.ShipmentEventList) = 2
    /\ Len(financial_events_payload.ShipmentEventList[1].ShipmentItemList) = 2
    /\ financial_events_payload.ShipmentEventList[1].ShipmentItemList[1].ItemChargeList = <<>>
    /\ financial_events_payload.ShipmentEventList[1].ShipmentItemList[1].ItemFeeList = <<>>
    /\ financial_events_payload.ShipmentEventList[1].ShipmentItemList[2].ItemChargeList # <<>>
    /\ Len(financial_events_payload.ShipmentEventList[2].ShipmentItemList) >= 1
    /\ Len(page_df.rows) >= 3

\* the currency code of the first charge entry that declares one, None when
\* no charge entry declares one
RECURSIVE FirstDeclaredCurrency(_)
FirstDeclaredCurrency(charges) ==
    IF charges = <<>> THEN "None"
    ELSE IF Head(charges).ChargeAmount.present
            /\ Head(charges).ChargeAmount.CurrencyCode # "absent"
    THEN Head(charges).ChargeAmount.CurrencyCode
    ELSE FirstDeclaredCurrency(Tail(charges))

\* C15: the currency of an item row is the currency code of the first entry
\* of the item's charge list that declares a currency code, and it is absent
\* only when no charge entry of the item declares one.
C15_FirstDeclaredCurrency ==
    fin_pc = "processed" =>
        LET items == ItemsOf(financial_events_payload.ShipmentEventList)
        IN  \A j \in DOMAIN items :
               page_df.rows[j]["currency"] = FirstDeclaredCurrency(items[j].ItemChargeList)

\* C10: after a conversion, every row whose currency (or missing currency) is
\* not in the rate table has each converted column equal to its source
\* column; the converted columns exist whenever the rate table is not empty,
\* and with an empty rate table the table is returned as it was.
C10_AbsentCurrencyIdentity ==
    conversions > 0 =>
        /\ DOMAIN rates = {} => financial_df = source_df
        /\ DOMAIN rates # {} =>
              /\ Len(financial_df.rows) = Len(source_df.rows)
              /\ \A i \in DOMAIN source_df.rows :
                    source_df.rows[i]["currency"] \notin DOMAIN rates =>
                        \A m \in (FinancialColumns \cup ExpenseColumns) \cap source_df.columns :
                            /\ InrColumn(m) \in financial_df.columns
                            /\ financial_df.rows[i][InrColumn(m)] = source_df.rows[i][m]

\* C10 witness: with a table holding only a USD rate of 83, an EUR row and a
\* row without currency kept their amounts while a USD row was multiplied
C10_Witness ==
    /\ conversions = 1
    /\ DOMAIN rates = {"USD"}
    /\ rates["USD"] = 83
    /\ Len(source_df.rows) = 2
    /\ source_df.rows[1]["currency"] = "EUR"
    /\ source_df.rows[2]["currency"] = "None"
    /\ financial_df.rows[1]["Total Revenue (INR)"] = 110
    /\ financial_df.rows[2]["Amazon Fees (INR)"] = -15

\* the monetary columns and the columns holding their converted values
MonetaryColumns == FinancialColumns \cup ExpenseColumns
InrColumns == {InrColumn(m) : m \in MonetaryColumns}

\* the rate of a row: the rate of its currency, 1.0 when the table has none
ExpectedRate(row, rate_table) ==
    IF row["currency"] \in DOMAIN rate_table THEN rate_table[row["currency"]] ELSE 1

\* C16: convert_df_to_inr multiplies each monetary column present (Total
\* Revenue, Net Proceeds, Amazon Fees, and Expenses / Courier Charges when
\* merged) by the row's rate, the product being stored in the column's
\* "(INR)" column, and leaves everything else untouched: the number and order
\* of the rows, every other column (the source columns included), and no
\* helper rate column remains.  With an empty rate table nothing is
\* multiplied and the table is returned as it was.
C16_ConvertFrame ==
    conversions > 0 =>
        /\ Len(financial_df.rows) = Len(source_df.rows)
        /\ "rate" \notin financial_df.columns
        /\ \A i \in DOMAIN source_df.rows :
              /\ "rate" \notin DOMAIN financial_df.rows[i]
              /\ \A c \in source_df.columns \ InrColumns :
                    financial_df.rows[i][c] = source_df.rows[i][c]
        /\ DOMAIN rates = {} => financial_df = source_df
        /\ DOMAIN rates # {} =>
              /\ financial_df.columns =
                    source_df.columns
                    \cup {InrColumn(m) : m \in MonetaryColumns \cap source_df.columns}
              /\ \A i \in DOMAIN source_df.rows :
                    /\ DOMAIN financial_df.rows[i] = financial_df.columns
                    /\ \A m \in MonetaryColumns \cap source_df.columns :
                          financial_df.rows[i][InrColumn(m)] =
                              source_df.rows[i][m] * ExpectedRate(source_df.rows[i], rates)

\* C16 witness: a two-row table with merged expenses was converted at a USD
\* rate of 83; the expense of 5 of the USD row became 415 and its sku stayed
C16_Witness ==
    /\ conversions = 1
    /\ DOMAIN rates # {}
    /\ "USD" \in DOMAIN rates
    /\ rates["USD"] = 83
    /\ Len(source_df.rows) = 2
    /\ "Expenses" \in source_df.columns
    /\ source_df.rows[1]["currency"] = "USD"
    /\ source_df.rows[1]["Expenses"] = 5
    /\ financial_df.rows[1]["Expenses (INR)"] = 415
    /\ financial_df.rows[1]["Total Revenue (INR)"] = 8300
    /\ financial_df.rows[1]["sku"] = source_df.rows[1]["sku"]

\* the rate table is not empty and all its rates are 1.0
AllRatesOne(rate_table) ==
    /\ DOMAIN rate_table # {}
    /\ \A c \in DOMAIN rate_table : rate_table[c] = 1

\* C17: applying convert_df_to_inr to a table that was already converted,
\* with a rate table whose rates are all 1.0, leaves every monetary column
\* unchanged, the previously converted "(INR)" columns included.
C17_ReconversionIdentity ==
    (conversions = 2 /\ AllRatesOne(rates)) =>
        \A i \in DOMAIN source_df.rows :
           \A c \in (MonetaryColumns \cup InrColumns) \cap source_df.columns :
              /\ c \in financial_df.columns
              /\ financial_df.rows[i][c] = source_df.rows[i][c]

(***************************************************************************)
(* Claims about the document decoder                                       *)
(***************************************************************************)
\* C11: in every document decoder, bytes under the gzip indicator are
\* gzip-decompressed, bytes under the deflate (ZLIB) indicator are
\* deflate-decompressed, and bytes under any other indicator are read as raw
\* text bytes.
C11_DecodersDecompress ==
    decode_pc = "decoded" =>
        /\ (compression_algorithm = "GZIP" /\ report_content_bytes.format = "gzip")
              => decoded = Decoded("none", report_content_bytes.text)
        /\ (compression_algorithm = "ZLIB" /\ report_content_bytes.format = "zlib")
              => decoded = Decoded("none", report_content_bytes.text)
        /\ (compression_algorithm \notin {"GZIP", "ZLIB"})
              => decoded = Decoded("none", IF report_content_bytes.format = "plain"
                                            THEN report_content_bytes.text
                                            ELSE Mojibake)

\* C22: decoder round trip: for every text, the gzip-compressed UTF-8 bytes
\* of the text decoded under the indicator GZIP give the text back exactly,
\* and the UTF-8 bytes of the text decoded under no indicator give the text
\* unchanged, in every driver.
C22_DecoderRoundTrip ==
    decode_pc = "decoded" =>
        \A t \in TextBlobs :
           /\ (compression_algorithm = "GZIP"
                 /\ report_content_bytes = gzip_compress(utf8_encode(t)))
                => decoded = [raised |-> "none", text |-> t]
           /\ (compression_algorithm = "None"
                 /\ report_content_bytes = utf8_encode(t))
                => decoded = [raised |-> "none", text |-> t]

\* C22 witness: a text of a two-byte and a three-byte character went through
\* sales_order4's decoder as gzip and came back
C22_Witness ==
    /\ decode_pc = "decoded"
    /\ decode_driver = "sales_order4"
    /\ compression_algorithm = "GZIP"
    /\ report_content_bytes = gzip_compress(utf8_encode(<<233, 8364>>))
    /\ decoded.text = <<233, 8364>>

(***************************************************************************)
(* Claims about the exchange rate tables                                   *)
(***************************************************************************)
\* the currencies whose rate is asked of the service
FxRequested == Range(fx_currencies) \ {IF fx_app = "Dashboard" THEN TARGET_CURRENCY
                                       ELSE BASE_CURRENCY}

\* C18 as stated: in both rate fetchers, once the table is built it has an
\* entry for every requested currency, a currency whose fetch failed has the
\* rate 1.0 and every other requested currency has the rate that was fetched.
C18_FailureDefaultsOneCurrency ==
    fx_pc = "done" =>
        \A c \in FxRequested :
           /\ c \in DOMAIN fx_rates
           /\ c \in fx_failed => fx_rates[c] = 1
           /\ c \notin fx_failed => fx_rates[c] = fx_fetched[c]

\* C18 amended: Dashboard's table has an entry for every requested currency,
\* 1.0 for exactly those whose fetch failed and the fetched rate for the
\* others, and one request per currency other than the target was sent;
\* sales_order4's table, fetched by one request, holds the delivered rates and
\* the base only, and the rate used for a requested currency is the delivered
\* one, or 1.0 by the lookup default when it was not delivered.
C18_EffectiveRateDefaults ==
    fx_pc = "done" =>
        /\ fx_app = "Dashboard" =>
              /\ DOMAIN fx_rates = Range(fx_currencies)
              /\ fx_requests = Cardinality(FxRequested)
              /\ \A c \in FxRequested :
                    /\ c \in fx_failed => fx_rates[c] = 1
                    /\ c \notin fx_failed => fx_rates[c] = fx_fetched[c]
        /\ fx_app = "sales_order4" =>
              /\ DOMAIN fx_rates = DOMAIN fx_fetched \cup {BASE_CURRENCY}
              /\ fx_requests = 1
              /\ \A c \in FxRequested :
                    /\ c \in fx_failed => sales_rate(fx_rates, c) = 1
                    /\ c \notin fx_failed => sales_rate(fx_rates, c) = fx_fetched[c]

\* C18 witness: Dashboard asked for three currencies, the fetch of the second
\* failed and the two others kept the rates that were fetched
C18_Witness ==
    /\ fx_app = "Dashboard"
    /\ fx_pc = "done"
    /\ Len(fx_currencies) = 3
    /\ fx_currencies[2] \in fx_failed
    /\ fx_currencies[1] \in DOMAIN fx_fetched
    /\ fx_currencies[3] \in DOMAIN fx_fetched
    /\ fx_rates[fx_currencies[2]] = 1
    /\ fx_rates[fx_currencies[1]] = 83
    /\ fx_rates[fx_currencies[3]] = 90

(***************************************************************************)
(* Claims about the financial data fetch                                   *)
(***************************************************************************)
\* C12: an empty result set is not a failure: a chunk fetch that succeeds but
\* finds no events returns a zero-row table, not the null failure result, and
\* when every fetch succeeded and nothing was found the caller presents a
\* "no data" state, not an error state.
C12_EmptyIsNotFailure ==
    (fetch_pc = "done" /\ failed_chunks = {}) =>
        /\ last_return.cause = "empty" => last_return.result = "table"
        /\ all_data_df = <<>> =>
              /\ ui_state # "error"
              /\ session_financial_df.value # "None"

\* the chunks of the date range, region by region
RECURSIVE ChunksOf(_, _)
ChunksOf(regions, n) ==
    IF regions = <<>> THEN <<>>
    ELSE [k \in 1..n |-> <<Head(regions), k>>] \o ChunksOf(Tail(regions), n)

\* the chunk a row was listed in
RowInChunk(row, region, chunk) ==
    \E page \in 1..MaxPages : row["amazon-order-id"] = OrderId(region, chunk, page)

\* a fetch_financial_data_chunk call returns in this step
ChunkReturnsNow == last_return' # last_return

\* C19: a failed page request aborts only its chunk: the chunk returns None
\* and adds no row, the rows collected so far stay, and the loops go on to
\* the next chunk or region; when fetch_financial_data_in_chunks returns,
\* every chunk of every region was attempted, in order, and the result holds
\* the rows of exactly the chunks that returned a table.
C19_PageFailureAbortsChunkOnly ==
    /\ [][ChunkReturnsNow =>
            /\ last_return'.cause = "exception" =>
                  /\ last_return'.result = "None"
                  /\ last_return'.reported = "exception"
                  /\ all_data_df' = all_data_df
            /\ last_return'.result = "table" =>
                  all_data_df' = all_data_df \o last_return'.rows
            /\ attempted_chunks' # ChunksOf(REGIONS_TO_PROCESS, n_chunks) =>
                  fetch_pc' = "chunk"]_vars
    /\ [](fetch_pc \in {"returned", "done"} =>
            /\ attempted_chunks = ChunksOf(REGIONS_TO_PROCESS, n_chunks)
            /\ \A i \in DOMAIN all_data_df :
                  \E c \in succeeded_chunks : RowInChunk(all_data_df[i], c[1], c[2])
            /\ \A c \in succeeded_chunks :
                  \E i \in DOMAIN all_data_df : RowInChunk(all_data_df[i], c[1], c[2]))

\* C19 witness: with credentials for both regions, the first chunk of the
\* first region failed on a page request, and the later chunks were fetched
\* and their rows returned
C19_Witness ==
    /\ fetch_pc = "returned"
    /\ env_credentials = {"na", "eu"}
    /\ n_chunks = 2
    /\ <<"na", 1>> \in failed_chunks
    /\ <<"na", 2>> \in succeeded_chunks
    /\ <<"eu", 2>> \in succeeded_chunks
    /\ Len(attempted_chunks) = 4
    /\ Len(all_data_df) >= 2


\* a list_financial_events request is sent in this step
PageRequestNow == pages' = pages + 1

\* C29: fetch_financial_data_chunk asks for the first page with no token and
\* then for one page per NextToken received, passing the token of the page
\* before; it returns at the first page without a NextToken, which comes
\* since the service ends the pagination; and the rows it returns are the
\* rows of the pages it asked for, in page order.
C29_PagesFollowTokens ==
    /\ [][PageRequestNow =>
            /\ request_token' = next_token
            /\ pages = 0 <=> next_token = "None"
            /\ pages > 0 => next_token = PageToken(pages)
            /\ (next_token' = "None" /\ last_return'.cause # "exception") <=>
                  (ChunkReturnsNow /\ last_return'.cause \in {"ok", "empty"})]_vars
    /\ [](last_return.cause \in {"ok", "empty"} =>
            /\ Len(last_return.rows) \in {last_return.requests - 1, last_return.requests}
            /\ last_return.result = "table" <=> last_return.rows # <<>>
            /\ \A i \in DOMAIN last_return.rows :
                  last_return.rows[i]["amazon-order-id"] =
                     OrderId(last_return.region, last_return.chunk, i))
    /\ (fetch_pc = "page") ~> (fetch_pc # "page")

\* C29 witness: a chunk took as many pages as the service has and returned
\* one row of each page, the last request carrying the token of the page before
C29_Witness ==
    /\ last_return.cause = "ok"
    /\ last_return.requests = MaxPages
    /\ Len(last_return.rows) = MaxPages
    /\ request_token = PageToken(MaxPages - 1)

\* C21: missing pricing of an item is soft: when the pricing response of a
\* SKU has no offer (no 'Offers' field or an empty list) or its first offer
\* has no listing price, the placeholder None is stored as the item's listing
\* price and the run goes on, so that get_order_details still returns the
\* order and its items.
C21_MissingPricingIsSoft ==
    /\ [][(/\ Len(order_api_calls') = Len(order_api_calls) + 1
           /\ order_pc = "pricing"
           /\ pricing_offers' \in {"absent", "empty", "offer_without_price"})
          => /\ listing_prices' = Append(listing_prices, "None")
             /\ order_result' # "None"]_vars
    /\ []((order_pc = "done" /\ pricing_offers \in {"absent", "empty", "offer_without_price"})
           => order_result = "order_and_items")

(***************************************************************************)
(* Claims about repeated report requests                                   *)
(***************************************************************************)
\* C28: when the latest get_amazon_report call submitted a job and ended in
\* a failure (returned None), a call with the same arguments submits a new
\* job: it is not answered with the earlier failure and it sends a
\* create_report request.
C28_FailureIsNotCached ==
    [][(/\ cache_calls' = cache_calls + 1
        /\ cache_result = [value |-> "None", requests |-> 1]
        /\ cache_args' = cache_args)
       => /\ ~cache_hit'
          /\ service_requests' = service_requests + 1]_vars

(***************************************************************************)
(* Claims about the date chunks                                            *)
(***************************************************************************)
\* the chunk calls made for a region, in order
CallsFor(region) == SelectSeq(windows, LAMBDA w : w.region = region)

\* C25: the chunk fetches run one after another, and before every chunk
\* fetch but the first a pause has been executed since the fetch before it,
\* within a region and from the last chunk of na to the first chunk of eu.
C25_PauseBetweenChunks ==
    [][(Len(windows') = Len(windows) + 1 /\ windows # <<>>) => slept]_vars

\* C26: within one region the requested windows leave no gap: every instant
\* from the start of the start date to the start of the end date lies in the
\* [PostedAfter, PostedBefore] window of one of the region's chunk calls.
C26_WindowsLeaveNoGap ==
    date_pc = "returned" =>
        \A r \in Range(REGIONS_TO_PROCESS) :
           \A t \in to_datetime(start_date)..to_datetime(end_date) :
              \E i \in DOMAIN CallsFor(r) :
                 /\ CallsFor(r)[i].PostedAfter <= t
                 /\ t <= CallsFor(r)[i].PostedBefore

\* C30: fetch_financial_data_in_chunks returns, and by then it has fetched,
\* for na and then for eu, date chunks of at most 30 days each, in ascending
\* order, that do not overlap and hold every date from start_date to
\* end_date exactly once and no other date.
C30_ChunksPartitionRange ==
    /\ [](\A i \in DOMAIN windows :
            /\ windows[i].start_date <= windows[i].end_date
            /\ windows[i].end_date - windows[i].start_date + 1 <= 30)
    /\ [](date_pc = "returned" =>
            /\ windows = CallsFor("na") \o CallsFor("eu")
            /\ \A r \in Range(REGIONS_TO_PROCESS) :
                  LET calls == CallsFor(r)
                  IN  /\ \A i \in DOMAIN calls : \A j \in DOMAIN calls :
                            i < j => calls[i].end_date < calls[j].start_date
                      /\ \A i \in DOMAIN calls :
                            /\ start_date <= calls[i].start_date
                            /\ calls[i].end_date <= end_date
                      /\ \A d \in start_date..end_date :
                            Cardinality({i \in DOMAIN calls :
                               calls[i].start_date <= d /\ d <= calls[i].end_date}) = 1)
    /\ <>(date_pc = "returned")

\* C30 witness: a range of 62 days was fetched in three chunks per region,
\* the last of them two days long
C30_Witness ==
    /\ date_pc = "returned"
    /\ end_date - start_date + 1 = 62
    /\ Len(CallsFor("eu")) = 3
    /\ CallsFor("eu")[3].end_date - CallsFor("eu")[3].start_date + 1 = 2

(***************************************************************************)
(* Claims about missing regional refresh tokens                            *)
(***************************************************************************)

\* C20: a missing regional refresh token is fatal for the region: when
\* get_order_details is done for a marketplace whose region has no refresh
\* token, it has invoked no marketplace API operation, has reported an
\* error, and has returned the null result.
C20_MissingTokenIsFatal ==
    (order_pc = "done" /\ order_region \notin regional_tokens) =>
        /\ order_api_calls = <<>>
        /\ order_reported \cap {"error_sp_api", "error_unexpected"} # {}
        /\ order_result = "None"

====
